---------------------------- MODULE Spec2Model ----------------------------
(***************************************************************************)
(* Model of the Libre 2 reader: key derivation and block cipher adapter    *)
(* (Libre2Encryption), the reader's scan / poll / disconnect sequences     *)
(* (Libre2Reader) and the monitoring component that drives them            *)
(* (GlucoseMonitor).                                                       *)
(*                                                                         *)
(* JavaScript arrays are 0-based, TLA+ sequences are 1-based: element i of *)
(* a JavaScript array is element i+1 of the sequence that models it.       *)
(***************************************************************************)
EXTENDS Integers, Sequences, FiniteSets, TLC

VARIABLES
    \* ---- Libre2Encryption.generateKeys, called directly ----
    macState,     \* contents of the `state` array of the latest _calculateMAC
    lastGen,      \* arguments and outcome of the latest generateKeys call
    probe,        \* an earlier generateKeys call, kept to compare later ones with
    \* ---- Libre2Encryption.encrypt / decrypt, called directly ----
    cipherIn,     \* [data, key] of the latest encrypt call
    cipherOut,    \* what that encrypt call returned
    plainOut,     \* what decrypt returned for cipherOut under the same key
    \* ---- a Libre2Reader and the transports under it ----
    rd,           \* the reader's fields
    nfcTech,      \* NfcManager's tag-technology request: none, requested, held
    scans,        \* the readSensorNfc calls in flight, by slot
    polls,        \* the readGlucoseData calls in flight, by slot
    conn,         \* the connectToDevice call in flight
    disc,         \* the disconnect call in flight
    \* ---- a caller that awaits each reader call before the next ----
    lastScan,     \* outcome of the latest readSensorNfc call
    lastPoll,     \* outcome of the latest readGlucoseData call
    lastDone,     \* the reader method that completed last
    \* ---- a mounted GlucoseMonitor component ----
    mounted,      \* no, mounting (initialize pending), yes, gone
    mon,          \* the component's React state
    timers,       \* the live interval timers, each with what its callback closed over
    tornDown,     \* how the session was torn down since the last connect: no, disconnect, unmount
    used,         \* how many button presses and timer ticks have happened
    session,      \* the polls of the monitoring session: their latest instant, what they delivered
    \* ---- functions called directly ----
    merged,       \* the arguments and results of the latest merge of readings, applied once and again
    history,      \* the tag memory given to _extractHistoricalReadings and what it returned
    parsed,       \* the buffer given to _parseGlucoseData and what it returned
    frame,        \* the arguments of the latest getReadMultipleBlocksCommand and its frame
    \* ---- Logger ----
    currentLevel, \* Logger.currentLevel
    logHistory,   \* Logger.logHistory
    logCalls      \* the entries stored so far, those since the last clearHistory, the latest call

keyVars    == <<macState, lastGen, probe>>
cipherVars == <<cipherIn, cipherOut, plainOut>>
readerVars == <<rd, nfcTech, scans, polls, conn, disc>>
clientVars == <<lastScan, lastPoll, lastDone>>
monVars    == <<mounted, mon, timers, tornDown, used, session>>
callerVars == <<clientVars, monVars>>
logVars    == <<currentLevel, logHistory, logCalls>>
utilVars   == <<merged, history, parsed, frame, logVars>>
vars       == <<keyVars, cipherVars, readerVars, clientVars, monVars, utilVars>>

\* JavaScript's null / undefined where an object is expected
NONE == [none |-> TRUE]

\* JavaScript's null / undefined where a byte array is expected (no byte is -1)
NO_BYTES == <<-1>>

\* a thrown Error with its message
Error(message) == [error |-> message]

IsError(r) == "error" \in DOMAIN r

---------------------------------------------------------------------------
(* Byte and 32-bit word arithmetic of JavaScript's bitwise operators.      *)

RECURSIVE XorBits(_, _)
\* a ^ b on non-negative integers, bit by bit
XorBits(a, b) ==
    IF a = 0 THEN b
    ELSE IF b = 0 THEN a
    ELSE (((a % 2) + (b % 2)) % 2) + (2 * XorBits(a \div 2, b \div 2))

\* a ^ b for 4-bit a and b, tabulated
NibbleXor == [a \in 0..15 |-> [b \in 0..15 |-> XorBits(a, b)]]

RECURSIVE Xor(_, _)
\* a ^ b on non-negative integers, four bits at a time
Xor(a, b) ==
    IF a < 16 /\ b < 16 THEN NibbleXor[a][b]
    ELSE NibbleXor[a % 16][b % 16] + (16 * Xor(a \div 16, b \div 16))

\* an array with the elements of f (f's values, each computed once)
Arr(f) == f \o <<>>

\* x & 0xFF
And255(x) == x % 256

\* byte j (0 = most significant) of the two's-complement pattern of an int32
WordBits(word, j) == (word \div (2 ^ (24 - j * 8))) % 256

\* the int32 whose pattern is the bytes b0 b1 b2 b3, b0 most significant:
\* `(b0 << 24) | (b1 << 16) | (b2 << 8) | b3`
WordOf(b0, b1, b2, b3) ==
    ((IF b0 >= 128 THEN b0 - 256 ELSE b0) * 16777216) + (b1 * 65536) + (b2 * 256) + b3

\* a ^ b on int32 words
XorWord(a, b) ==
    WordOf(Xor(WordBits(a, 0), WordBits(b, 0)), Xor(WordBits(a, 1), WordBits(b, 1)),
           Xor(WordBits(a, 2), WordBits(b, 2)), Xor(WordBits(a, 3), WordBits(b, 3)))

---------------------------------------------------------------------------
(* Libre2Encryption: key derivation.                                       *)

\* the `state` array literal of _calculateMAC
MAC_INIT == <<9, 118, 66, 113, 248, 196, 70, 147>>

\* the sBox array literal of _transformMACState: 48 entries
SBOX == << 99, 124, 119, 123, 242, 107, 111, 197,  48,   1, 103,  43, 254, 215, 171, 118,
          202, 130, 201, 125, 250,  89,  71, 240, 173, 212, 162, 175, 156, 164, 114, 192,
          140, 161, 137,  13, 191, 230,  66, 104,  65, 153,  45,  15, 176,  84, 187,  22 >>

\* a mutant of FreshMacState: the array hoisted out of the call and reused
SharedMacState(old) == old

\* `const state = [0x09, ...]`: every call starts from a new array, whatever
\* the previous call left in its own
FreshMacState(old) == MAC_INIT

\* the index _transformMACState looks a byte up at: state[i] % sBox.length
SBoxIndex(b) == b % Len(SBOX)

\* sBox[state[i] % sBox.length]
Substitute(b) == SBOX[SBoxIndex(b) + 1]

\* the state after `state[i] ^= uidArray[7-i]`
MacXored(init, uid) == Arr([i \in 1..8 |-> Xor(init[i], uid[9 - i])])

\* _transformMACState: substitution, then the mix over a copy of the state
TransformMACState(state) ==
    LET temp == Arr([i \in 1..8 |-> Substitute(state[i])])
    IN  Arr([i \in 1..8 |-> And255(temp[i] + temp[(i % 8) + 1])])

\* _calculateMAC, given the array the call works in
CalculateMAC(init, uid) == TransformMACState(MacXored(init, uid))

\* _generateSeed
GenerateSeed(mac, uid) ==
    LET mixed == Arr([i \in 1..16 |-> IF i <= 8 THEN mac[i] ELSE Xor(uid[i - 8], mac[i - 8])])
    IN  Arr([i \in 1..16 |-> And255(Xor(mixed[i], 85) + (i - 1))])

\* a mutant of KeyTypeValue: the key type is ignored
KeyTypeValueIgnored(keyType) == 1

\* `keyType === 'encrypt' ? 0x01 : 0x02`
KeyTypeValue(keyType) == IF keyType = "encrypt" THEN 1 ELSE 2

\* one round of _deriveKey: the 16 additive updates, then the rotation
DeriveRound(key, seed, round) ==
    LET temp == Arr([i \in 1..16 |->
                       And255(Xor(key[i] + seed[((i - 1) % 8) + 1],
                                  seed[8 + ((i - 1) % 8) + 1]))])
    IN  Arr([i \in 1..16 |-> temp[((i - 1 + round) % 16) + 1]])

\* the number of rounds of _deriveKey
KEY_ROUNDS == 4

RECURSIVE DeriveRounds(_, _, _)
DeriveRounds(key, seed, round) ==
    IF round = KEY_ROUNDS THEN key
    ELSE DeriveRounds(DeriveRound(key, seed, round), seed, round + 1)

\* _deriveKey
DeriveKey(seed, keyType) ==
    DeriveRounds(Arr([i \in 1..16 |-> Xor(seed[i], KeyTypeValue(keyType))]), seed, 0)

\* a mutant of UidRejected: only too short an identifier is refused
UidRejectedIfShort(uid) == uid = NO_BYTES \/ Len(uid) < 8

\* the check at the head of generateKeys: `!uid || uid.length !== 8`
UidRejected(uid) == uid = NO_BYTES \/ Len(uid) # 8

\* generateKeys once its argument passed the check, given the MAC it computed
KeysFromMac(mac, uid) ==
    LET seed == GenerateSeed(mac, uid)
    IN  [encryptionKey |-> DeriveKey(seed, "encrypt"),
         decryptionKey |-> DeriveKey(seed, "decrypt"),
         mac           |-> mac]

\* generateKeys(uid): the result, or the error it throws
GenerateKeys(uid) ==
    IF UidRejected(uid) THEN Error("UID must be an 8-byte array")
    ELSE KeysFromMac(CalculateMAC(FreshMacState(MAC_INIT), uid), uid)

---------------------------------------------------------------------------
(* Libre2Encryption: the block cipher adapter.                             *)

\* the AES block size in bytes and in 32-bit words
BLOCK_BYTES == 16
BLOCK_WORDS == 4

\* `u8arr[i] || 0`: a byte of the array, 0 past its end (i is 0-based)
ByteOrZero(u8, i) == IF i < Len(u8) THEN u8[i + 1] ELSE 0

\* _uint8ArrayToWordArray: big-endian int32 words, sigBytes = the length
Uint8ArrayToWordArray(u8) ==
    LET len == Len(u8)
        n   == (len + 3) \div 4
    IN  [words    |-> Arr([w \in 1..n |->
                             WordOf(ByteOrZero(u8, 4 * (w - 1)),
                                    ByteOrZero(u8, 4 * (w - 1) + 1),
                                    ByteOrZero(u8, 4 * (w - 1) + 2),
                                    ByteOrZero(u8, 4 * (w - 1) + 3))]),
         sigBytes |-> len]

\* a mutant of WordByte: the bytes of a word taken low byte first
WordByteLittleEndian(word, j) == (word \div (2 ^ (j * 8))) % 256

\* `(word >> (24 - j * 8)) & 0xff`: >> keeps the sign, & 0xff drops it
WordByte(word, j) == (word \div (2 ^ (24 - j * 8))) % 256

\* _wordArrayToUint8Array: sigBytes bytes, each word high byte first
WordArrayToUint8Array(wa) ==
    Arr([k \in 1..wa.sigBytes |-> WordByte(wa.words[((k - 1) \div 4) + 1], (k - 1) % 4)])

\* `CryptoJS.lib.WordArray.create([0, 0, 0, 0])`
ZERO_IV == <<0, 0, 0, 0>>

(***************************************************************************)
(* CryptoJS is a library, not code of this repository.  Of its AES block   *)
(* transform the adapter uses one fact: under a key it is a bijection on   *)
(* 4-word blocks and the decryptor applies its inverse.  BlockEncrypt and  *)
(* BlockDecrypt are such a keyed bijection on int32 words (byte-wise       *)
(* addition of the key modulo 256, then a rotation of the words); the      *)
(* AES rounds themselves are not modelled.  The chaining (CBC, the IV, no  *)
(* padding, the processing of a final partial block on flush, sigBytes of  *)
(* the result) follows the library's BlockCipher / BufferedBlockAlgorithm. *)
(***************************************************************************)
BlockEncrypt(block, key) ==
    Arr([j \in 1..BLOCK_WORDS |->
           LET w == block[(j % BLOCK_WORDS) + 1]
               add(k) == (WordBits(w, k) + WordBits(key[j], k)) % 256
           IN  WordOf(add(0), add(1), add(2), add(3))])

BlockDecrypt(block, key) ==
    Arr([m \in 1..BLOCK_WORDS |->
           LET j == ((m + 2) % BLOCK_WORDS) + 1
               sub(k) == (WordBits(block[j], k) - WordBits(key[j], k)) % 256
           IN  WordOf(sub(0), sub(1), sub(2), sub(3))])

XorBlock(a, b) == Arr([j \in 1..BLOCK_WORDS |-> XorWord(a[j], b[j])])

\* word w (1-based) of the data, 0 where the buffer holds none
WordOrZero(words, w) == IF w <= Len(words) THEN words[w] ELSE 0

\* block b (1-based) of the buffered data
BlockAt(words, b) ==
    Arr([j \in 1..BLOCK_WORDS |-> WordOrZero(words, BLOCK_WORDS * (b - 1) + j)])

\* the number of blocks processed on flush: ceil(sigBytes / blockSizeBytes)
BlocksReady(sigBytes) == (sigBytes + BLOCK_BYTES - 1) \div BLOCK_BYTES

RECURSIVE CbcEncryptBlocks(_, _, _, _, _)
\* blocks b..n of a CBC encryption; prev is the previous ciphertext block
CbcEncryptBlocks(words, key, prev, b, n) ==
    IF b > n THEN <<>>
    ELSE LET c == BlockEncrypt(XorBlock(BlockAt(words, b), prev), key)
         IN  c \o CbcEncryptBlocks(words, key, c, b + 1, n)

RECURSIVE CbcDecryptBlocks(_, _, _, _, _)
\* blocks b..n of a CBC decryption; prev is the previous ciphertext block
CbcDecryptBlocks(words, key, prev, b, n) ==
    IF b > n THEN <<>>
    ELSE LET c == BlockAt(words, b)
         IN  XorBlock(BlockDecrypt(c, key), prev)
               \o CbcDecryptBlocks(words, key, c, b + 1, n)

\* CryptoJS.AES.encrypt(dataWords, keyWords, {CBC, NoPadding, iv}).ciphertext
AesCbcEncrypt(data, key, iv) ==
    [words    |-> CbcEncryptBlocks(data.words, key.words, iv, 1, BlocksReady(data.sigBytes)),
     sigBytes |-> data.sigBytes]

\* CryptoJS.AES.decrypt({ciphertext: dataWords}, keyWords, {CBC, NoPadding, iv})
AesCbcDecrypt(data, key, iv) ==
    [words    |-> CbcDecryptBlocks(data.words, key.words, iv, 1, BlocksReady(data.sigBytes)),
     sigBytes |-> data.sigBytes]

\* Libre2Encryption.encrypt
Encrypt(data, key) ==
    WordArrayToUint8Array(
        AesCbcEncrypt(Uint8ArrayToWordArray(data), Uint8ArrayToWordArray(key), ZERO_IV))

\* Libre2Encryption.decrypt: no check of the input's length
Decrypt(data, key) ==
    WordArrayToUint8Array(
        AesCbcDecrypt(Uint8ArrayToWordArray(data), Uint8ArrayToWordArray(key), ZERO_IV))

---------------------------------------------------------------------------
(* Inputs of the direct calls.                                             *)

\* identifiers: the specification's example, all zero, all 0xFF, and one
\* that sends the MAC state to F0 01 02 03 F8 1F 10 FF before substitution
UID_EXAMPLE == <<1, 2, 3, 4, 5, 6, 7, 8>>
UID_ZERO    == <<0, 0, 0, 0, 0, 0, 0, 0>>
UID_ONES    == <<255, 255, 255, 255, 255, 255, 255, 255>>
UID_F9      == <<108, 86, 219, 0, 114, 64, 119, 249>>

UidPool == {UID_EXAMPLE, UID_ZERO, UID_ONES, UID_F9}

\* arguments that are no 8-byte identifier: missing, empty, 7 and 9 bytes
BadUidPool == {NO_BYTES, <<>>, <<1, 2, 3, 4, 5, 6, 7>>, <<1, 2, 3, 4, 5, 6, 7, 8, 9>>}

UidArgs == UidPool \cup BadUidPool

\* values of generateKeys' second parameter
InfoPool == {"", "2024-01-01"}

\* the longest plaintext of a direct encrypt call, in blocks
MaxBlocks == 2

BLOCK_LOW  == <<0, 1, 2, 3, 4, 5, 6, 7, 8, 9, 10, 11, 12, 13, 14, 15>>
BLOCK_HIGH == <<255, 128, 127, 0, 200, 1, 2, 254, 129, 64, 32, 16, 240, 15, 170, 85>>

BlockPool == {BLOCK_LOW, BLOCK_HIGH}

RECURSIVE Plaintexts(_)
\* the block-aligned buffers of at most n blocks drawn from BlockPool
Plaintexts(n) ==
    IF n = 0 THEN {<<>>}
    ELSE Plaintexts(n - 1)
           \cup {p \o b : p \in {q \in Plaintexts(n - 1) : Len(q) = BLOCK_BYTES * (n - 1)},
                          b \in BlockPool}

PlainPool == Plaintexts(MaxBlocks)

\* 16-byte keys: both keys of every identifier of the pool
KeyPool ==
    UNION {{GenerateKeys(u).encryptionKey, GenerateKeys(u).decryptionKey} : u \in UidPool}

---------------------------------------------------------------------------
(* Direct calls of Libre2Encryption.                                       *)

KeysInit ==
    /\ macState = MAC_INIT
    /\ lastGen = NONE
    /\ probe = NONE

CipherInit ==
    /\ cipherIn = NONE
    /\ cipherOut = NO_BYTES
    /\ plainOut = NO_BYTES

\* what a generateKeys(uid, info) call leaves behind: its outcome in
\* lastGen, and in macState the array its MAC was computed in
GenerateKeysEffect(uid, info) ==
    IF UidRejected(uid)
    THEN /\ lastGen' = [uid |-> uid, info |-> info, out |-> GenerateKeys(uid)]
         /\ UNCHANGED macState
    ELSE LET mac == CalculateMAC(FreshMacState(macState), uid)
         IN  /\ macState' = mac
             /\ lastGen' = [uid |-> uid, info |-> info, out |-> KeysFromMac(mac, uid)]

\* a caller invokes generateKeys(uid, info); a call may be kept as the probe
GenerateKeysCall(uid, info, keep) ==
    /\ GenerateKeysEffect(uid, info)
    /\ probe' = IF keep /\ probe = NONE
                THEN [uid |-> uid, out |-> lastGen'.out, others |-> FALSE, again |-> FALSE]
                ELSE IF probe = NONE THEN NONE
                ELSE IF uid = probe.uid THEN [probe EXCEPT !.again = TRUE]
                ELSE [probe EXCEPT !.others = TRUE]
    /\ UNCHANGED <<cipherVars, utilVars, readerVars, callerVars>>

\* a caller invokes encrypt(data, key)
EncryptCall(data, key) ==
    /\ cipherIn' = [data |-> data, key |-> key]
    /\ cipherOut' = Encrypt(data, key)
    /\ plainOut' = NO_BYTES
    /\ UNCHANGED <<keyVars, utilVars, readerVars, callerVars>>

\* a caller invokes decrypt on what encrypt returned, under the same key
DecryptCall ==
    /\ cipherOut # NO_BYTES
    /\ plainOut' = Decrypt(cipherOut, cipherIn.key)
    /\ UNCHANGED <<cipherIn, cipherOut>>
    /\ UNCHANGED <<keyVars, utilVars, readerVars, callerVars>>

KeysNext ==
    \E uid \in UidArgs, info \in InfoPool, keep \in BOOLEAN : GenerateKeysCall(uid, info, keep)

CipherNext ==
    \/ \E data \in PlainPool, key \in KeyPool : EncryptCall(data, key)
    \/ DecryptCall

---------------------------------------------------------------------------
(* Libre2Commands: the command frames.                                     *)

\* getUidCommand
GetUidCommand == <<38, 1, 0, 0, 0, 0, 0, 0>>

\* getReadBlockCommand
GetReadBlockCommand(blockNumber) == <<35, blockNumber, 0, 0, 0, 0, 0, 0>>

\* an element of a Uint8Array: the number modulo 2^8
ToUint8(x) == x % 256

\* a mutant of getReadMultipleBlocksCommand: numBlocks is not clamped
GetReadMultipleBlocksCommandUnclamped(startBlock, numBlocks) ==
    <<35, ToUint8(startBlock), ToUint8(numBlocks - 1), 0, 0, 0, 0, 0>>

\* getReadMultipleBlocksCommand
GetReadMultipleBlocksCommand(startBlock, numBlocks) ==
    LET clamped == IF numBlocks > 3 THEN 3 ELSE numBlocks
    IN  <<35, ToUint8(startBlock), ToUint8(clamped - 1), 0, 0, 0, 0, 0>>

\* getActivateCommand
GetActivateCommand == <<160, 0, 0, 0, 0, 0, 0, 0>>

---------------------------------------------------------------------------
(* Libre2Reader: construction and the tag scan.                            *)

\* the connected BLE device object
DEVICE == [id |-> "libre2"]

\* the constructor
NewReader ==
    [isNfcSupported |-> FALSE,
     isConnected    |-> FALSE,
     device         |-> NONE,
     encryptionKeys |-> NONE,
     sensorUid      |-> NO_BYTES,
     bleDestroyed   |-> FALSE]

\* the number of memory blocks readSensorNfc reads
NUM_BLOCKS == 43

\* the frame readSensorNfc builds for the identifier
UidCommand == <<38, 1, 0, 0, 0, 0, 0, 0>>

\* the frame readSensorNfc builds for block i
BlockCommand(i) == <<35, i, 0, 0, 0, 0, 0, 0>>

\* `uidResponse.slice(2, 10)`
SliceUid(response) ==
    Arr([k \in 1..(IF Len(response) >= 10 THEN 8
                   ELSE IF Len(response) > 2 THEN Len(response) - 2 ELSE 0) |-> response[k + 2]])

\* the check of _generateEncryptionKeys
SensorUidRejected(uid) == uid = NO_BYTES \/ Len(uid) # 8

\* the concurrent readSensorNfc / readGlucoseData calls the model follows
MaxInFlight == 2

Slots == 1..MaxInFlight

IdleScan == [pc |-> "idle", by |-> NONE, i |-> 0, sent |-> <<>>, blocks |-> <<>>,
             uidResponse |-> NO_BYTES, before |-> NONE]

\* the fields of the reader a scan writes: this.sensorUid, this.encryptionKeys
ScanDerived(reader) ==
    [sensorUid |-> reader.sensorUid, encryptionKeys |-> reader.encryptionKeys]

\* the lowest slot of calls that holds no call
FreeSlot(calls) == CHOOSE s \in Slots : calls[s].pc = "idle" /\ \A t \in Slots : t < s => calls[t].pc # "idle"

HasFreeSlot(calls) == \E s \in Slots : calls[s].pc = "idle"

NoneInFlight(calls) == \A s \in Slots : calls[s].pc = "idle"

(***************************************************************************)
(* The tag memory the scanned sensor answers with: 43 blocks of 8 bytes.   *)
(* Byte 4 is the sensor state, bytes 24..31 the serial number (bytes 26,   *)
(* 27 are also the current glucose, byte 28 the trend); history slots 0    *)
(* and 2 (offsets 124, 136) are written, the others are not; bytes 316,    *)
(* 317 are the sensor age (byte 317 is also the start time's low byte).    *)
(***************************************************************************)
TagByte(offset) ==
    CASE offset = 4  -> 3
      [] offset = 24 -> 171
      [] offset = 26 -> 232
      [] offset = 27 -> 3
      [] offset = 28 -> 2
      [] offset = 124 -> 16
      [] offset = 126 -> 1
      [] offset = 128 -> 100
      [] offset = 136 -> 32
      [] offset = 138 -> 1
      [] offset = 140 -> 110
      [] offset = 316 -> 210
      [] offset = 317 -> 5
      [] OTHER       -> 0

\* the sensor's answer to a read of block i: two status bytes, then 8 bytes
BlockResponse(i) == <<0, 0>> \o Arr([k \in 1..8 |-> TagByte(8 * i + k - 1)])

\* the answers to the get-identifier frame: the identifier of the sensor
\* whose radio the session polls, that of another sensor, an answer longer
\* than status + identifier, and answers that carry fewer than 8 bytes
SENSOR_UID == UID_EXAMPLE

UidResponses ==
    { <<0, 0>> \o SENSOR_UID,
      <<0, 0>> \o UID_F9,
      <<0, 0>> \o SENSOR_UID \o <<170, 187>>,
      <<0, 0, 1, 2, 3, 4, 5, 6, 7>>,
      <<1, 15>> }

(***************************************************************************)
(* Decoded values.  A uint32 is kept as <<high 16 bits, low 16 bits>>, so  *)
(* that every timestamp the device can send is represented; a Date is the  *)
(* uint32 of its seconds.  A glucose value is kept as the raw uint16, the  *)
(* number of tenths of mg/dL (the code's raw / 10).                        *)
(***************************************************************************)
\* DataView.getUint32(_, true) over the bytes b0 b1 b2 b3
Uint32LE(b0, b1, b2, b3) == <<(b3 * 256) + b2, (b1 * 256) + b0>>

\* DataView.getUint16(_, true) over the bytes b0 b1
Uint16LE(b0, b1) == (b1 * 256) + b0

U32_ZERO == <<0, 0>>

\* _processSensorData: the buffer the blocks are assembled into (byte at a
\* 0-based offset); each block contributes `blocks[i].slice(2)` at i * 8
BufferByte(blocks, offset) ==
    LET block == blocks[(offset \div 8) + 1]
        k     == (offset % 8) + 3
    IN  IF k <= Len(block) THEN block[k] ELSE 0

\* _extractSerialNumber: the 16 hexadecimal digits of bytes 24..31
ExtractSerialNumber(blocks) ==
    Arr([d \in 1..16 |->
           LET b == BufferByte(blocks, 24 + ((d - 1) \div 2))
           IN  IF d % 2 = 1 THEN b \div 16 ELSE b % 16])

\* _extractSensorStartTime
ExtractSensorStartTime(blocks) ==
    Uint32LE(BufferByte(blocks, 317), BufferByte(blocks, 318),
             BufferByte(blocks, 319), BufferByte(blocks, 320))

\* _extractCurrentGlucose
ExtractCurrentGlucose(blocks) == Uint16LE(BufferByte(blocks, 26), BufferByte(blocks, 27))

\* _extractTrend
ExtractTrend(blocks) ==
    LET trend == BufferByte(blocks, 28)
        trendDirections ==
            <<"Unknown", "Rising quickly", "Rising", "Stable", "Falling", "Falling quickly">>
    IN  trendDirections[(IF trend < 5 THEN trend ELSE 5) + 1]

\* _extractSensorState
ExtractSensorState(blocks) ==
    LET state == BufferByte(blocks, 4)
    IN  CASE state = 1 -> "Not activated"
          [] state = 2 -> "Activating"
          [] state = 3 -> "Active"
          [] state = 4 -> "Expired"
          [] state = 5 -> "Shutdown"
          [] state = 6 -> "Failure"
          [] OTHER     -> "Unknown"

\* _extractSensorAge
ExtractSensorAge(blocks) ==
    LET minutes == Uint16LE(BufferByte(blocks, 316), BufferByte(blocks, 317))
    IN  [minutes   |-> minutes,
         formatted |-> <<minutes \div (60 * 24), (minutes % (60 * 24)) \div 60, minutes % 60>>]

HISTORY_START == 124
READING_SIZE  == 6
NUM_HISTORY   == 32

RECURSIVE HistoricalFromStopAtSkip(_, _)
\* a mutant of the loop: a skipped slot ends it
HistoricalFromStopAtSkip(blocks, i) ==
    IF i >= NUM_HISTORY THEN <<>>
    ELSE LET offset == HISTORY_START + (i * READING_SIZE)
         IN  IF offset + READING_SIZE > Len(blocks) * 8 THEN <<>>
             ELSE LET timestamp == Uint32LE(BufferByte(blocks, offset),
                                            BufferByte(blocks, offset + 1),
                                            BufferByte(blocks, offset + 2),
                                            BufferByte(blocks, offset + 3))
                      glucoseRaw == Uint16LE(BufferByte(blocks, offset + 4),
                                             BufferByte(blocks, offset + 5))
                  IN  IF timestamp = U32_ZERO \/ glucoseRaw = 0
                      THEN <<>>
                      ELSE <<[timestamp |-> timestamp, glucoseValue |-> glucoseRaw]>>
                             \o HistoricalFromStopAtSkip(blocks, i + 1)

RECURSIVE HistoricalFrom(_, _)
\* _extractHistoricalReadings: the loop from slot i on
HistoricalFrom(blocks, i) ==
    IF i >= NUM_HISTORY THEN <<>>
    ELSE LET offset == HISTORY_START + (i * READING_SIZE)
         IN  IF offset + READING_SIZE > Len(blocks) * 8 THEN <<>>
             ELSE LET timestamp == Uint32LE(BufferByte(blocks, offset),
                                            BufferByte(blocks, offset + 1),
                                            BufferByte(blocks, offset + 2),
                                            BufferByte(blocks, offset + 3))
                      glucoseRaw == Uint16LE(BufferByte(blocks, offset + 4),
                                             BufferByte(blocks, offset + 5))
                  IN  IF timestamp = U32_ZERO \/ glucoseRaw = 0
                      THEN HistoricalFrom(blocks, i + 1)
                      ELSE <<[timestamp |-> timestamp, glucoseValue |-> glucoseRaw]>>
                             \o HistoricalFrom(blocks, i + 1)

\* _extractHistoricalReadings
ExtractHistoricalReadings(blocks) == HistoricalFrom(blocks, 0)

\* _processSensorData
ProcessSensorData(blocks) ==
    [serialNumber       |-> ExtractSerialNumber(blocks),
     sensorStartTime    |-> ExtractSensorStartTime(blocks),
     currentGlucose     |-> ExtractCurrentGlucose(blocks),
     trend              |-> ExtractTrend(blocks),
     sensorState        |-> ExtractSensorState(blocks),
     sensorAge          |-> ExtractSensorAge(blocks),
     historicalReadings |-> ExtractHistoricalReadings(blocks)]

---------------------------------------------------------------------------
(* The callers of a reader.  Every call carries `by`, the handler that     *)
(* awaits it; when the call's promise settles, that handler's continuation *)
(* runs in the same step.                                                   *)

\* a caller that owns a reader and awaits each call before the next
Client == [handler |-> "client"]

\* that caller places a call: the outcome of its previous call is dropped
ClientPlaces ==
    /\ lastScan' = NONE
    /\ lastPoll' = NONE
    /\ lastDone' = "calling"

\* that caller takes the outcome of its readSensorNfc call
ClientTakesScan(outcome) ==
    /\ lastScan' = outcome
    /\ lastPoll' = NONE
    /\ lastDone' = "readSensorNfc"

\* that caller takes the outcome of its readGlucoseData call
ClientTakesPoll(outcome) ==
    /\ lastPoll' = outcome
    /\ lastScan' = NONE
    /\ lastDone' = "readGlucoseData"

\* that caller sees its connectToDevice settle
ClientTakesConnect ==
    /\ lastDone' = "connectToDevice"
    /\ lastScan' = NONE
    /\ lastPoll' = NONE

\* that caller sees its disconnect settle
ClientTakesDisconnect(completed) ==
    /\ lastDone' = IF completed THEN "disconnect" ELSE "disconnect failed"
    /\ lastScan' = NONE
    /\ lastPoll' = NONE

\* ---- GlucoseMonitor: the component's state and its handlers' continuations

\* useState(null) of a number: no glucose value is negative
NO_VALUE == -1

\* the state of the first render; monitoringInterval 0 is null (timer ids
\* are positive).  statusMessage and error, two strings that are only
\* displayed, are not kept.
NewMonitor ==
    [reader             |-> FALSE,
     isInitialized      |-> FALSE,
     isConnected        |-> FALSE,
     isMonitoring       |-> FALSE,
     sensorInfo         |-> NONE,
     currentGlucose     |-> NO_VALUE,
     glucoseReadings    |-> <<>>,
     monitoringInterval |-> 0]

\* a.timestamp - b.timestamp < 0, for Dates kept as uint32 seconds
TimestampLess(a, b) == a[1] < b[1] \/ (a[1] = b[1] /\ a[2] < b[2])

RECURSIVE InsertByTimestamp(_, _)
InsertByTimestamp(sorted, x) ==
    IF sorted = <<>> THEN <<x>>
    ELSE IF TimestampLess(x.timestamp, Head(sorted).timestamp) THEN <<x>> \o sorted
    ELSE <<Head(sorted)>> \o InsertByTimestamp(Tail(sorted), x)

RECURSIVE SortByTimestamp(_)
\* Array.prototype.sort((a, b) => a.timestamp - b.timestamp), which is stable
SortByTimestamp(readings) ==
    IF readings = <<>> THEN <<>>
    ELSE InsertByTimestamp(SortByTimestamp(SubSeq(readings, 1, Len(readings) - 1)),
                           readings[Len(readings)])

\* readings.map(reading => ({value, timestamp, label})); the label is the
\* timestamp's HH:MM and is not kept
FormatReadings(readings) ==
    Arr([k \in 1..Len(readings) |->
           [value |-> readings[k].glucoseValue, timestamp |-> readings[k].timestamp]])

RECURSIVE RemoveDuplicateReadingsKeepFirst(_)
\* a mutant of removeDuplicateReadings: the first entry of a key is kept
RemoveDuplicateReadingsKeepFirst(readings) ==
    IF readings = <<>> THEN <<>>
    ELSE LET n     == Len(readings)
             front == RemoveDuplicateReadingsKeepFirst(SubSeq(readings, 1, n - 1))
         IN  IF \E k \in 1..Len(front) : front[k].timestamp = readings[n].timestamp
             THEN front
             ELSE Append(front, readings[n])

RECURSIVE RemoveDuplicateReadings(_)
\* removeDuplicateReadings: a Map keyed by the timestamp keeps the position
\* of a key's first entry and the value of its last
RemoveDuplicateReadings(readings) ==
    IF readings = <<>> THEN <<>>
    ELSE LET n     == Len(readings)
             front == RemoveDuplicateReadings(SubSeq(readings, 1, n - 1))
             same  == {k \in 1..Len(front) : front[k].timestamp = readings[n].timestamp}
         IN  IF same = {} THEN Append(front, readings[n])
             ELSE Arr([k \in 1..Len(front) |-> IF k \in same THEN readings[n] ELSE front[k]])

\* 24 * 60 * 60 seconds, as a uint32
DAY == <<1, 20864>>

\* the instants `new Date()` returns, as uint32 seconds: one less than a day
\* after every timestamp the sensor sends here, one more than a day after
\* some of them
NowPool == {<<1, 100>>, <<2, 20928>>}

\* reading.timestamp > cutoffTime, with cutoffTime = now - 24 h
AfterCutoff(timestamp, now) ==
    IF TimestampLess(now, DAY) THEN TRUE
    ELSE LET borrow == IF now[2] < DAY[2] THEN 1 ELSE 0
             cutoff == <<now[1] - DAY[1] - borrow, (now[2] + (borrow * 65536)) - DAY[2]>>
         IN  TimestampLess(cutoff, timestamp)

\* a mutant of the merge: duplicates are not removed
MergeReadingsKeepDuplicates(glucoseReadings, readings, now) ==
    LET allReadings    == glucoseReadings \o FormatReadings(readings)
        sortedReadings == SortByTimestamp(allReadings)
    IN  SelectSeq(sortedReadings, LAMBDA reading : AfterCutoff(reading.timestamp, now))

\* readGlucoseData (the component's): the merge of the captured
\* glucoseReadings with the readings of a poll
MergeReadings(glucoseReadings, readings, now) ==
    LET allReadings    == glucoseReadings \o FormatReadings(readings)
        uniqueReadings == RemoveDuplicateReadings(allReadings)
        sortedReadings == SortByTimestamp(uniqueReadings)
    IN  SelectSeq(sortedReadings, LAMBDA reading : AfterCutoff(reading.timestamp, now))

\* readGlucoseData (the component's) after `await reader.readGlucoseData()`:
\* the state it sets; a rejection is caught
AfterReadGlucoseData(m, glucoseReadings, outcome, now) ==
    IF outcome.ok /\ Len(outcome.readings) > 0
    THEN [m EXCEPT !.currentGlucose  = outcome.readings[Len(outcome.readings)].glucoseValue,
                   !.glucoseReadings = MergeReadings(glucoseReadings, outcome.readings, now)]
    ELSE m

\* handleNfcScan after `await reader.readSensorNfc()`
AfterReadSensorNfc(m, outcome) ==
    IF outcome.ok
    THEN [m EXCEPT !.sensorInfo      = outcome.data,
                   !.currentGlucose  = outcome.data.currentGlucose,
                   !.glucoseReadings =
                       SortByTimestamp(FormatReadings(outcome.data.historicalReadings))]
    ELSE m

\* handleConnect after `await reader.connectToDevice()`
AfterConnectToDevice(m, connected) ==
    IF connected THEN [m EXCEPT !.isConnected = TRUE] ELSE m

\* handleDisconnect after `await reader.disconnect()`; a rejection leaves
\* the handler there
AfterDisconnect(m, completed) ==
    IF completed THEN [m EXCEPT !.isConnected = FALSE] ELSE m

\* a set state of an unmounted component is dropped
SetState(m) == mon' = IF mounted = "yes" THEN m ELSE mon

\* the bounds on the interval timers alive at once, on the button presses
\* and on the timer ticks of a run
MaxTimers == 2
MaxPresses == 4
MaxTicks == 2

\* a call placed by a button press or by a timer tick says so in `event`
Used(by) ==
    IF "event" \in DOMAIN by
    THEN IF by.event = "press" THEN [used EXCEPT !.presses = @ + 1]
                               ELSE [used EXCEPT !.ticks = @ + 1]
    ELSE used

\* what a call in flight keeps of `by`: the handler and what it closed over
Stored(by) ==
    IF "glucoseReadings" \in DOMAIN by
    THEN [handler |-> by.handler, glucoseReadings |-> by.glucoseReadings]
    ELSE [handler |-> by.handler]

\* setInterval returns an id that no live timer has and the state does not hold
NewTimerId ==
    CHOOSE id \in 1..(MaxTimers + 1) :
        /\ id # mon.monitoringInterval
        /\ \A t \in timers : t.id # id
        /\ \A smaller \in 1..(id - 1) :
               smaller = mon.monitoringInterval \/ \E t \in timers : t.id = smaller

\* stopMonitoring, on the state m and the timers ts
StopMonitoring(m, ts) ==
    IF m.monitoringInterval # 0
    THEN [mon    |-> [m EXCEPT !.monitoringInterval = 0, !.isMonitoring = FALSE],
          timers |-> {t \in ts : t.id # m.monitoringInterval}]
    ELSE [mon |-> m, timers |-> ts]

\* no poll has completed since the window was last set otherwise; `now` is
\* the instant `new Date()` returned last
NewSession(now) == [polled |-> FALSE, now |-> now, delivered |-> {}]

\* a press of Start Monitoring begins a monitoring session
SessionAt(by) ==
    IF by.handler = "startMonitoring" /\ "event" \in DOMAIN by
    THEN NewSession(session.now) ELSE session

\* the timestamps of the readings a poll returned
TimestampsOf(readings) == {readings[k].timestamp : k \in 1..Len(readings)}

\* the component's handler continues after the readSensorNfc it awaited
MonitorTakesScan(by, outcome) ==
    /\ SetState(AfterReadSensorNfc(mon, outcome))
    /\ used' = Used(by)
    /\ session' = IF outcome.ok THEN NewSession(session.now) ELSE session
    /\ UNCHANGED <<mounted, timers, tornDown>>

\* after the readGlucoseData it awaited: the interval callback ends;
\* startMonitoring goes on to setInterval, whose callback calls the
\* readGlucoseData of startMonitoring's render
MonitorTakesPoll(by, outcome) ==
    \E now \in NowPool :
        LET read == AfterReadGlucoseData(mon, by.glucoseReadings, outcome, now)
        IN  /\ ~TimestampLess(now, session.now)
            /\ session' = IF outcome.ok
                           THEN [polled    |-> TRUE,
                                 now       |-> now,
                                 delivered |-> SessionAt(by).delivered
                                                 \cup TimestampsOf(outcome.readings)]
                           ELSE SessionAt(by)
            /\ IF by.handler = "startMonitoring"
               THEN LET interval == NewTimerId
                    IN  /\ timers' = timers \cup
                                       {[id |-> interval, glucoseReadings |-> by.glucoseReadings]}
                        /\ SetState([read EXCEPT !.monitoringInterval = interval,
                                                 !.isMonitoring = TRUE])
                        /\ used' = Used(by)
                        /\ UNCHANGED <<mounted, tornDown>>
               ELSE /\ SetState(read)
                    /\ used' = Used(by)
                    /\ UNCHANGED <<mounted, timers, tornDown>>

\* after the connectToDevice it awaited
MonitorTakesConnect(by, connected) ==
    /\ SetState(AfterConnectToDevice(mon, connected))
    /\ used' = Used(by)
    /\ UNCHANGED <<mounted, timers, tornDown, session>>

\* after the disconnect it awaited; `after` is the state stopMonitoring left
\* when disconnect() returns without an await
MonitorTakesDisconnect(by, completed) ==
    LET base == IF "after" \in DOMAIN by THEN by.after ELSE [mon |-> mon, timers |-> timers]
    IN  /\ SetState(AfterDisconnect(base.mon, completed))
        /\ timers' = base.timers
        /\ tornDown' = IF completed THEN "disconnect" ELSE tornDown
        /\ used' = Used(by)
        /\ UNCHANGED <<mounted, session>>

\* a call is placed and its promise is pending
CallPlaced(by) ==
    IF by.handler = "client"
    THEN ClientPlaces /\ UNCHANGED monVars
    ELSE /\ UNCHANGED clientVars
         /\ mon' = IF "after" \in DOMAIN by THEN by.after.mon ELSE mon
         /\ timers' = IF "after" \in DOMAIN by THEN by.after.timers ELSE timers
         /\ tornDown' = IF by.handler = "handleConnect" THEN "no" ELSE tornDown
         /\ used' = Used(by)
         /\ session' = SessionAt(by)
         /\ UNCHANGED mounted

\* the promise of a readSensorNfc call settles and its caller continues
DeliverScan(by, outcome) ==
    IF by.handler = "client"
    THEN ClientTakesScan(outcome) /\ UNCHANGED monVars
    ELSE MonitorTakesScan(by, outcome) /\ UNCHANGED clientVars

\* the promise of a readGlucoseData call settles and its caller continues
DeliverPoll(by, outcome) ==
    IF by.handler = "client"
    THEN ClientTakesPoll(outcome) /\ UNCHANGED monVars
    ELSE MonitorTakesPoll(by, outcome) /\ UNCHANGED clientVars

\* the promise of connectToDevice settles, unless the timeout settled it
DeliverConnect(by, connected) ==
    IF conn.settled THEN UNCHANGED callerVars
    ELSE IF by.handler = "client"
    THEN ClientTakesConnect /\ UNCHANGED monVars
    ELSE MonitorTakesConnect(by, connected) /\ UNCHANGED clientVars

\* the promise of disconnect settles and its caller, if it awaits it,
\* continues
DeliverDisconnect(by, completed) ==
    IF by.handler = "cleanup" THEN UNCHANGED callerVars
    ELSE IF by.handler = "client"
    THEN ClientTakesDisconnect(completed) /\ UNCHANGED monVars
    ELSE MonitorTakesDisconnect(by, completed) /\ UNCHANGED clientVars

---------------------------------------------------------------------------
(* Libre2Reader.initialize and readSensorNfc, one action per await.        *)

\* messages of the errors the reader or the transports under it raise
ERR_NFC_UNSUPPORTED == "NFC is not supported on this device"
ERR_UID_REQUIRED    == "Valid sensor UID is required to generate encryption keys"
ERR_TECH            == "requestTechnology rejected"
ERR_TRANSCEIVE      == "transceive rejected"

\* NfcManager.cancelTechnologyRequest: the technology is released; a
\* request still pending will reject, and so will a transceive still pending
CancelTechnologyRequest(calls) ==
    [s \in Slots |-> IF calls[s].pc = "tech" THEN [calls[s] EXCEPT !.pc = "techFail"]
                     ELSE IF calls[s].pc \in {"uid", "block"} THEN [calls[s] EXCEPT !.pc = "lost"]
                     ELSE calls[s]]

\* what a caller gets from a readSensorNfc call
ScanOutcome(call, error, data) ==
    [ok          |-> error = "",
     error       |-> error,
     data        |-> data,
     sent        |-> call.sent,
     uidResponse |-> call.uidResponse,
     blocks      |-> Len(call.blocks),
     before      |-> call.before]

\* initialize(): NfcManager.isSupported() and start() decide isNfcSupported
Initialized(supported) == [rd EXCEPT !.isNfcSupported = supported]

\* initialize(), called by the caller that awaits every call
Initialize(supported) ==
    /\ ~rd.isNfcSupported
    /\ rd' = Initialized(supported)
    /\ lastDone' = "initialize"
    /\ lastScan' = NONE
    /\ lastPoll' = NONE
    /\ UNCHANGED <<nfcTech, scans, polls, conn, disc, monVars>>
    /\ UNCHANGED <<keyVars, cipherVars, utilVars>>

\* readSensorNfc() up to its first await
ReadSensorNfcCall(by) ==
    /\ HasFreeSlot(scans)
    /\ LET s == FreeSlot(scans)
       IN  IF ~rd.isNfcSupported
           THEN /\ DeliverScan(by, ScanOutcome([IdleScan EXCEPT !.before = ScanDerived(rd)],
                                               ERR_NFC_UNSUPPORTED, NONE))
                /\ UNCHANGED <<scans, nfcTech>>
           ELSE /\ scans' = [scans EXCEPT ![s] =
                               [IdleScan EXCEPT !.by = Stored(by),
                                                !.before = ScanDerived(rd),
                                                !.pc = IF nfcTech = "none" THEN "tech" ELSE "techFail"]]
                /\ nfcTech' = IF nfcTech = "none" THEN "requested" ELSE nfcTech
                /\ CallPlaced(by)
    /\ UNCHANGED <<rd, polls, conn, disc>>
    /\ UNCHANGED <<keyVars, cipherVars, utilVars>>

\* requestTechnology resolves: the get-identifier frame is sent
ScanTechResolved(s) ==
    /\ scans[s].pc = "tech"
    /\ nfcTech = "requested"
    /\ nfcTech' = "held"
    /\ scans' = [scans EXCEPT ![s].pc = "uid", ![s].sent = <<UidCommand>>]
    /\ UNCHANGED <<rd, polls, conn, disc, callerVars>>
    /\ UNCHANGED <<keyVars, cipherVars, utilVars>>

\* requestTechnology rejects: catch, rethrow, finally
ScanTechRejected(s) ==
    /\ scans[s].pc \in {"tech", "techFail"}
    /\ nfcTech' = "none"
    /\ scans' = CancelTechnologyRequest([scans EXCEPT ![s] = IdleScan])
    /\ DeliverScan(scans[s].by, ScanOutcome(scans[s], ERR_TECH, NONE))
    /\ UNCHANGED <<rd, polls, conn, disc>>
    /\ UNCHANGED <<keyVars, cipherVars, utilVars>>

\* the identifier response arrives: sensorUid is stored, the keys are
\* generated (or _generateEncryptionKeys throws) and block 0 is asked for
ScanUidResponded(s, response) ==
    /\ scans[s].pc = "uid"
    /\ nfcTech = "held"
    /\ LET uid == SliceUid(response)
       IN  IF SensorUidRejected(uid)
           THEN /\ rd' = [rd EXCEPT !.sensorUid = uid]
                /\ nfcTech' = "none"
                /\ scans' = CancelTechnologyRequest([scans EXCEPT ![s] = IdleScan])
                /\ DeliverScan(scans[s].by, ScanOutcome([scans[s] EXCEPT !.uidResponse = response],
                                               ERR_UID_REQUIRED, NONE))
                /\ UNCHANGED keyVars
           ELSE /\ GenerateKeysEffect(uid, "")
                /\ rd' = [rd EXCEPT !.sensorUid = uid, !.encryptionKeys = lastGen'.out]
                /\ scans' = [scans EXCEPT ![s].pc = "block", ![s].i = 0,
                                          ![s].uidResponse = response,
                                          ![s].sent = Append(@, BlockCommand(0))]
                /\ UNCHANGED <<nfcTech, probe, callerVars>>
    /\ UNCHANGED <<polls, conn, disc>>
    /\ UNCHANGED <<cipherVars, utilVars>>

\* the response to block i arrives: the next block is asked for, or, after
\* the last one, the blocks are processed and the call returns
ScanBlockResponded(s) ==
    /\ scans[s].pc = "block"
    /\ nfcTech = "held"
    /\ LET call == [scans[s] EXCEPT !.blocks = Append(@, BlockResponse(scans[s].i))]
       IN  IF call.i + 1 < NUM_BLOCKS
           THEN /\ scans' = [scans EXCEPT ![s] =
                               [call EXCEPT !.i = @ + 1,
                                            !.sent = Append(@, BlockCommand(call.i + 1))]]
                /\ UNCHANGED <<nfcTech, callerVars>>
           ELSE /\ nfcTech' = "none"
                /\ scans' = CancelTechnologyRequest([scans EXCEPT ![s] = IdleScan])
                /\ DeliverScan(scans[s].by, ScanOutcome(call, "", ProcessSensorData(call.blocks)))
    /\ UNCHANGED <<rd, polls, conn, disc>>
    /\ UNCHANGED <<keyVars, cipherVars, utilVars>>

\* a mutant of the rejection of a transceive: the frame is sent once more
\* before the scan gives up
ScanTransceiveRejectedResend(s) ==
    /\ scans[s].pc \in {"uid", "block", "lost"}
    /\ LET sent == scans[s].sent
           n    == Len(sent)
       IN  IF n >= 2 /\ sent[n] = sent[n - 1]
           THEN /\ nfcTech' = "none"
                /\ scans' = CancelTechnologyRequest([scans EXCEPT ![s] = IdleScan])
                /\ DeliverScan(scans[s].by, ScanOutcome(scans[s], ERR_TRANSCEIVE, NONE))
           ELSE /\ scans' = [scans EXCEPT ![s].sent = Append(@, sent[n])]
                /\ UNCHANGED <<nfcTech, callerVars>>
    /\ UNCHANGED <<rd, polls, conn, disc>>
    /\ UNCHANGED <<keyVars, cipherVars, utilVars>>

\* a transceive rejects (the tag is gone, or no technology is held): catch,
\* rethrow, finally
ScanTransceiveRejected(s) ==
    /\ scans[s].pc \in {"uid", "block", "lost"}
    /\ nfcTech' = "none"
    /\ scans' = CancelTechnologyRequest([scans EXCEPT ![s] = IdleScan])
    /\ DeliverScan(scans[s].by, ScanOutcome(scans[s], ERR_TRANSCEIVE, NONE))
    /\ UNCHANGED <<rd, polls, conn, disc>>
    /\ UNCHANGED <<keyVars, cipherVars, utilVars>>

\* a step of a scan in flight, the sensor answering with one of `responses`
ScanSteps(responses) ==
    \E s \in Slots :
        \/ ScanTechResolved(s)
        \/ ScanTechRejected(s)
        \/ \E response \in responses : ScanUidResponded(s, response)
        \/ ScanBlockResponded(s)
        \/ ScanTransceiveRejected(s)

ScanStep == ScanSteps(UidResponses)

---------------------------------------------------------------------------
(* Libre2Reader.readGlucoseData, one action per await.                     *)

\* A base64 string is the sequence of its characters' 6-bit values, with
\* PAD for '='.
PAD == 64

\* the base64 string the BLE library hands over for the bytes of a value
ToBase64(bytes) ==
    LET n == Len(bytes)
        byte(k) == IF k <= n THEN bytes[k] ELSE 0
    IN  Arr([c \in 1..(4 * ((n + 2) \div 3)) |->
               LET g  == (c - 1) \div 4
                   b0 == byte((3 * g) + 1)
                   b1 == byte((3 * g) + 2)
                   b2 == byte((3 * g) + 3)
               IN  CASE (c - 1) % 4 = 0 -> b0 \div 4
                     [] (c - 1) % 4 = 1 -> ((b0 % 4) * 16) + (b1 \div 16)
                     [] (c - 1) % 4 = 2 -> IF (3 * g) + 2 > n THEN PAD
                                           ELSE ((b1 % 16) * 4) + (b2 \div 64)
                     [] OTHER           -> IF (3 * g) + 3 > n THEN PAD ELSE b2 % 64])

\* _base64ToArrayBuffer: atob, then the character codes
Base64ToArrayBuffer(base64) ==
    LET chars == Len(base64)
        pads  == Cardinality({c \in 1..chars : base64[c] = PAD})
        n     == (3 * (chars \div 4)) - pads
    IN  Arr([k \in 1..n |->
               LET g  == (k - 1) \div 3
                   c0 == base64[(4 * g) + 1]
                   c1 == base64[(4 * g) + 2]
                   c2 == base64[(4 * g) + 3]
                   c3 == base64[(4 * g) + 4]
               IN  CASE (k - 1) % 3 = 0 -> (c0 * 4) + (c1 \div 16)
                     [] (k - 1) % 3 = 1 -> ((c1 % 16) * 16) + (c2 \div 4)
                     [] OTHER           -> ((c2 % 4) * 64) + c3])

HEADER_SIZE == 10
MIN_PAYLOAD == 16

RECURSIVE ParseFromEverySlot(_, _, _)
\* a mutant of the loop: it goes on past the declared count, to the end of
\* the buffer
ParseFromEverySlot(data, numReadings, i) ==
    LET offset == HEADER_SIZE + (i * READING_SIZE)
    IN  IF offset + READING_SIZE > Len(data) THEN <<>>
        ELSE <<[timestamp    |-> Uint32LE(data[offset + 1], data[offset + 2],
                                          data[offset + 3], data[offset + 4]),
                glucoseValue |-> Uint16LE(data[offset + 5], data[offset + 6])]>>
               \o ParseFromEverySlot(data, numReadings, i + 1)

RECURSIVE ParseFrom(_, _, _)
\* _parseGlucoseData: the loop from reading i on
ParseFrom(data, numReadings, i) ==
    IF i >= numReadings THEN <<>>
    ELSE LET offset == HEADER_SIZE + (i * READING_SIZE)
         IN  IF offset + READING_SIZE > Len(data) THEN <<>>
             ELSE <<[timestamp    |-> Uint32LE(data[offset + 1], data[offset + 2],
                                               data[offset + 3], data[offset + 4]),
                     glucoseValue |-> Uint16LE(data[offset + 5], data[offset + 6])]>>
                    \o ParseFrom(data, numReadings, i + 1)

\* _parseGlucoseData
ParseGlucoseData(data) ==
    IF Len(data) < MIN_PAYLOAD THEN <<>> ELSE ParseFrom(data, data[3], 0)

\* the payloads the sensor's radio sends: a 10-byte header (type 0x01,
\* count in byte 2), then 6-byte readings
PAYLOAD_ONE ==
    <<1, 0, 1, 0, 0, 0, 0, 0, 0, 0,   48, 0, 1, 0, 120, 0>>
PAYLOAD_THREE ==
    <<1, 0, 3, 0, 0, 0, 0, 0, 0, 0,   48, 0, 1, 0, 121, 0,   64, 0, 1, 0, 130, 0,
      80, 0, 1, 0, 140, 0,   0, 0, 0, 0>>
\* a payload that declares no reading
PAYLOAD_NONE ==
    <<1, 0, 0, 0, 0, 0, 0, 0, 0, 0,   0, 0, 0, 0, 0, 0>>

\* the key the sensor encrypts its payloads under: the one a reader that
\* scanned this sensor decrypts with
DeviceKey == GenerateKeys(SENSOR_UID).decryptionKey

\* the values a characteristic read returns: the encrypted payloads, one
\* of them cut to one byte more than a block, and an empty value
CharacteristicValues ==
    { ToBase64(Encrypt(PAYLOAD_ONE, DeviceKey)),
      ToBase64(Encrypt(PAYLOAD_THREE, DeviceKey)),
      ToBase64(SubSeq(Encrypt(PAYLOAD_THREE, DeviceKey), 1, BLOCK_BYTES + 1)),
      ToBase64(<<>>) }

ERR_NOT_CONNECTED  == "Not connected to Libre device"
ERR_NO_KEYS        == "Encryption keys not available. Please read sensor via NFC first."
ERR_NO_SERVICE     == "Libre 2 service not found"
ERR_NO_CHARACTERISTIC == "Libre 2 characteristic not found"
ERR_NULL_DEVICE    == "TypeError: null is not an object"
ERR_BLE            == "BLE operation rejected"

IdlePoll == [pc |-> "idle", by |-> NONE, hadKeys |-> FALSE, wasConnected |-> FALSE,
             read |-> FALSE, reads |-> 0]

\* what a caller gets from a readGlucoseData call; read / decrypted say
\* whether the call issued a characteristic read / called decrypt
PollOutcome(call, error, readings, encrypted, decrypted) ==
    [ok           |-> error = "",
     error        |-> error,
     readings     |-> readings,
     hadKeys      |-> call.hadKeys,
     wasConnected |-> call.wasConnected,
     read         |-> call.read,
     reads        |-> call.reads,
     encrypted    |-> encrypted,
     decrypted    |-> decrypted]

\* a mutant of PollRefusal: the two checks in the other order
PollRefusalKeysFirst(reader) ==
    IF reader.encryptionKeys = NONE THEN ERR_NO_KEYS
    ELSE IF ~reader.isConnected \/ reader.device = NONE THEN ERR_NOT_CONNECTED
    ELSE ""

\* the two checks at the head of readGlucoseData: the message of the error
\* thrown, or "" when both pass
PollRefusal(reader) ==
    IF ~reader.isConnected \/ reader.device = NONE THEN ERR_NOT_CONNECTED
    ELSE IF reader.encryptionKeys = NONE THEN ERR_NO_KEYS
    ELSE ""

\* readGlucoseData() up to its first await: the two checks, then
\* this.device.services()
ReadGlucoseDataCall(by) ==
    /\ HasFreeSlot(polls)
    /\ LET s    == FreeSlot(polls)
           call == [IdlePoll EXCEPT !.by = Stored(by),
                                    !.hadKeys = rd.encryptionKeys # NONE,
                                    !.wasConnected = rd.isConnected /\ rd.device # NONE]
       IN  IF PollRefusal(rd) # ""
           THEN /\ DeliverPoll(by, PollOutcome(call, PollRefusal(rd), <<>>, NO_BYTES, FALSE))
                /\ UNCHANGED polls
           ELSE /\ polls' = [polls EXCEPT ![s] = [call EXCEPT !.pc = "services"]]
                /\ CallPlaced(by)
    /\ UNCHANGED <<rd, nfcTech, scans, conn, disc>>
    /\ UNCHANGED <<keyVars, cipherVars, utilVars>>

\* device.services() resolves, with or without the Libre 2 service
PollServicesResolved(s, found) ==
    /\ polls[s].pc = "services"
    /\ ~rd.bleDestroyed
    /\ IF found
       THEN /\ polls' = [polls EXCEPT ![s].pc = "characteristics"]
            /\ UNCHANGED callerVars
       ELSE /\ polls' = [polls EXCEPT ![s] = IdlePoll]
            /\ DeliverPoll(polls[s].by, PollOutcome(polls[s], ERR_NO_SERVICE, <<>>, NO_BYTES, FALSE))
    /\ UNCHANGED <<rd, nfcTech, scans, conn, disc>>
    /\ UNCHANGED <<keyVars, cipherVars, utilVars>>

\* targetService.characteristics() resolves, with or without the Libre 2
\* characteristic; with it, the read is issued on this.device
PollCharacteristicsResolved(s, found) ==
    /\ polls[s].pc = "characteristics"
    /\ ~rd.bleDestroyed
    /\ IF ~found
       THEN /\ polls' = [polls EXCEPT ![s] = IdlePoll]
            /\ DeliverPoll(polls[s].by, PollOutcome(polls[s], ERR_NO_CHARACTERISTIC, <<>>, NO_BYTES, FALSE))
       ELSE IF rd.device = NONE
       THEN /\ polls' = [polls EXCEPT ![s] = IdlePoll]
            /\ DeliverPoll(polls[s].by, PollOutcome(polls[s], ERR_NULL_DEVICE, <<>>, NO_BYTES, FALSE))
       ELSE /\ polls' = [polls EXCEPT ![s].pc = "read", ![s].read = TRUE,
                                          ![s].reads = @ + 1]
            /\ UNCHANGED callerVars
    /\ UNCHANGED <<rd, nfcTech, scans, conn, disc>>
    /\ UNCHANGED <<keyVars, cipherVars, utilVars>>

\* the characteristic read resolves: base64 to bytes, decrypt under the
\* reader's decryptionKey, parse
PollReadResolved(s, value) ==
    /\ polls[s].pc = "read"
    /\ ~rd.bleDestroyed
    /\ LET encryptedData == Base64ToArrayBuffer(value)
           decryptedData == Decrypt(encryptedData, rd.encryptionKeys.decryptionKey)
       IN  /\ polls' = [polls EXCEPT ![s] = IdlePoll]
           /\ DeliverPoll(polls[s].by, PollOutcome(polls[s], "", ParseGlucoseData(decryptedData),
                                         encryptedData, TRUE))
    /\ UNCHANGED <<rd, nfcTech, scans, conn, disc>>
    /\ UNCHANGED <<keyVars, cipherVars, utilVars>>

\* an awaited BLE operation rejects: catch, rethrow
PollRejected(s) ==
    /\ polls[s].pc \in {"services", "characteristics", "read"}
    /\ polls' = [polls EXCEPT ![s] = IdlePoll]
    /\ DeliverPoll(polls[s].by, PollOutcome(polls[s], ERR_BLE, <<>>, NO_BYTES, FALSE))
    /\ UNCHANGED <<rd, nfcTech, scans, conn, disc>>
    /\ UNCHANGED <<keyVars, cipherVars, utilVars>>

\* a step of a poll in flight, the characteristic holding one of `values`
PollSteps(values) ==
    \E s \in Slots :
        \/ \E found \in BOOLEAN : PollServicesResolved(s, found)
        \/ \E found \in BOOLEAN : PollCharacteristicsResolved(s, found)
        \/ \E value \in values : PollReadResolved(s, value)
        \/ PollRejected(s)

PollStep == PollSteps(CharacteristicValues)

---------------------------------------------------------------------------
(* Libre2Reader.connectToDevice() and disconnect(), one action per await   *)
(* or callback.  The model follows one call of each at a time.             *)

\* settled: the promise the caller awaits has settled (the 10 s timeout
\* rejects it while the connection attempt goes on)
IdleConn == [pc |-> "idle", by |-> NONE, settled |-> FALSE]
IdleDisc == [pc |-> "idle", by |-> NONE]

\* connectToDevice(): startDeviceScan and the 10 s timer
ConnectToDeviceCall(by) ==
    /\ conn.pc = "idle"
    /\ conn' = [IdleConn EXCEPT !.pc = "scanning", !.by = Stored(by)]
    /\ CallPlaced(by)
    /\ UNCHANGED <<rd, nfcTech, scans, polls, disc>>
    /\ UNCHANGED <<keyVars, cipherVars, utilVars>>

\* the scan callback reports an error: stopDeviceScan, reject
BleScanError ==
    /\ conn.pc = "scanning"
    /\ conn' = IdleConn
    /\ DeliverConnect(conn.by, FALSE)
    /\ UNCHANGED <<rd, nfcTech, scans, polls, disc>>
    /\ UNCHANGED <<keyVars, cipherVars, utilVars>>

\* the scan callback reports a Libre device: stopDeviceScan, connect to it
BleDeviceFound ==
    /\ conn.pc = "scanning"
    /\ ~rd.bleDestroyed
    /\ conn' = [conn EXCEPT !.pc = "connecting"]
    /\ UNCHANGED <<rd, nfcTech, scans, polls, disc, callerVars>>
    /\ UNCHANGED <<keyVars, cipherVars, utilVars>>

\* bleManager.connectToDevice resolves: this.device is set, discovery starts
BleConnected ==
    /\ conn.pc = "connecting"
    /\ ~rd.bleDestroyed
    /\ rd' = [rd EXCEPT !.device = DEVICE]
    /\ conn' = [conn EXCEPT !.pc = "discovering"]
    /\ UNCHANGED <<nfcTech, scans, polls, disc, callerVars>>
    /\ UNCHANGED <<keyVars, cipherVars, utilVars>>

\* discovery resolves: isConnected is set, resolve(true)
BleDiscovered ==
    /\ conn.pc = "discovering"
    /\ ~rd.bleDestroyed
    /\ rd' = [rd EXCEPT !.isConnected = TRUE]
    /\ conn' = IdleConn
    /\ DeliverConnect(conn.by, TRUE)
    /\ UNCHANGED <<nfcTech, scans, polls, disc>>
    /\ UNCHANGED <<keyVars, cipherVars, utilVars>>

\* the connection or the discovery rejects: reject(err)
BleConnectFailed ==
    /\ conn.pc \in {"connecting", "discovering"}
    /\ conn' = IdleConn
    /\ DeliverConnect(conn.by, FALSE)
    /\ UNCHANGED <<rd, nfcTech, scans, polls, disc>>
    /\ UNCHANGED <<keyVars, cipherVars, utilVars>>

\* the 10 s timer fires before isConnected is set: stopDeviceScan, reject
ConnectTimeout ==
    /\ conn.pc # "idle"
    /\ ~conn.settled
    /\ ~rd.isConnected
    /\ conn' = IF conn.pc = "scanning" THEN IdleConn ELSE [conn EXCEPT !.settled = TRUE]
    /\ DeliverConnect(conn.by, FALSE)
    /\ UNCHANGED <<rd, nfcTech, scans, polls, disc>>
    /\ UNCHANGED <<keyVars, cipherVars, utilVars>>

ConnectStep ==
    \/ BleScanError
    \/ BleDeviceFound
    \/ BleConnected
    \/ BleDiscovered
    \/ BleConnectFailed
    \/ ConnectTimeout

\* disconnect(): with a device, up to `await this.device.cancelConnection()`;
\* without one, the whole method
DisconnectStarts(by) ==
    /\ disc.pc = "idle"
    /\ IF rd.device # NONE
       THEN /\ disc' = [pc |-> "cancelling", by |-> Stored(by)]
            /\ UNCHANGED <<rd, nfcTech, scans>>
       ELSE /\ rd' = [rd EXCEPT !.bleDestroyed = TRUE]
            /\ nfcTech' = "none"
            /\ scans' = CancelTechnologyRequest(scans)
            /\ UNCHANGED disc
    /\ UNCHANGED <<polls, conn>>
    /\ UNCHANGED <<keyVars, cipherVars, utilVars>>

\* disconnect() called by a handler that awaits it
DisconnectCall(by) ==
    /\ DisconnectStarts(by)
    /\ IF rd.device # NONE THEN CallPlaced(by) ELSE DeliverDisconnect(by, TRUE)

\* cancelConnection resolves: the rest of disconnect()
DisconnectCancelled ==
    /\ disc.pc = "cancelling"
    /\ rd' = [rd EXCEPT !.isConnected = FALSE, !.device = NONE, !.bleDestroyed = TRUE]
    /\ nfcTech' = "none"
    /\ scans' = CancelTechnologyRequest(scans)
    /\ disc' = IdleDisc
    /\ DeliverDisconnect(disc.by, TRUE)
    /\ UNCHANGED <<polls, conn>>
    /\ UNCHANGED <<keyVars, cipherVars, utilVars>>

\* cancelConnection rejects: disconnect() rejects there
DisconnectCancelFailed ==
    /\ disc.pc = "cancelling"
    /\ disc' = IdleDisc
    /\ DeliverDisconnect(disc.by, FALSE)
    /\ UNCHANGED <<rd, nfcTech, scans, polls, conn>>
    /\ UNCHANGED <<keyVars, cipherVars, utilVars>>

DisconnectStep ==
    \/ DisconnectCancelled
    \/ DisconnectCancelFailed

---------------------------------------------------------------------------
(* A caller that owns a reader and awaits every call before the next.      *)

ReaderInit ==
    /\ rd = NewReader
    /\ nfcTech = "none"
    /\ scans = [s \in Slots |-> IdleScan]
    /\ polls = [s \in Slots |-> IdlePoll]
    /\ conn = IdleConn
    /\ disc = IdleDisc

ClientInit ==
    /\ lastScan = NONE
    /\ lastPoll = NONE
    /\ lastDone = "new"


\* no call the caller awaits is pending
ClientIdle ==
    /\ NoneInFlight(scans)
    /\ NoneInFlight(polls)
    /\ conn.pc = "idle" \/ conn.settled
    /\ disc.pc = "idle"

ClientCall ==
    /\ ClientIdle
    /\ \/ \E supported \in BOOLEAN : Initialize(supported)
       \/ ReadSensorNfcCall(Client)
       \/ ConnectToDeviceCall(Client)
       \/ ReadGlucoseDataCall(Client)
       \/ DisconnectCall(Client)

\* that caller when it only scans, and calls generateKeys itself
ScanClientCall ==
    /\ ClientIdle
    /\ \/ \E supported \in BOOLEAN : Initialize(supported)
       \/ ReadSensorNfcCall(Client)
       \/ \E uid \in UidArgs : GenerateKeysCall(uid, "", FALSE)

ScanNext ==
    \/ ScanClientCall
    \/ ScanStep

Next ==
    \/ ClientCall
    \/ ScanStep
    \/ ConnectStep
    \/ PollStep
    \/ DisconnectStep

---------------------------------------------------------------------------
(* GlucoseMonitor: the mount, the buttons, the interval timers, the        *)
(* unmount.  A handler runs up to its await in one step.                   *)

MonitorInit ==
    /\ mounted = "no"
    /\ mon = NewMonitor
    /\ timers = {}
    /\ tornDown = "no"
    /\ used = [presses |-> 0, ticks |-> 0]
    /\ session = NewSession(<<0, 0>>)

\* what the effect of the first render closed over: its cleanup sees these
FirstRender == NewMonitor

\* the first render and its effect: initializeReader() runs up to
\* `await newReader.initialize()`
Mount ==
    /\ mounted = "no"
    /\ mounted' = "mounting"
    /\ UNCHANGED <<mon, timers, tornDown, used, session>>
    /\ UNCHANGED <<keyVars, cipherVars, utilVars, readerVars, clientVars>>

\* initialize() resolves (it catches what NfcManager throws): setReader,
\* setIsInitialized
MonitorInitialized(supported) ==
    /\ mounted = "mounting"
    /\ mounted' = "yes"
    /\ rd' = Initialized(supported)
    /\ mon' = [mon EXCEPT !.reader = TRUE, !.isInitialized = TRUE]
    /\ UNCHANGED <<timers, tornDown, used, session>>
    /\ UNCHANGED <<nfcTech, scans, polls, conn, disc>>
    /\ UNCHANGED <<keyVars, cipherVars, utilVars, clientVars>>

\* the Scan NFC button
HandleNfcScan ==
    /\ mounted = "yes"
    /\ mon.isInitialized
    /\ mon.reader
    /\ used.presses < MaxPresses
    /\ ReadSensorNfcCall([handler |-> "handleNfcScan", event |-> "press"])

\* the Connect BLE / Reconnect button
HandleConnect ==
    /\ mounted = "yes"
    /\ mon.isInitialized /\ mon.sensorInfo # NONE
    /\ mon.reader
    /\ used.presses < MaxPresses
    /\ ConnectToDeviceCall([handler |-> "handleConnect", event |-> "press"])

\* the Start Monitoring button: startMonitoring up to its initial read
StartMonitoring ==
    /\ mounted = "yes"
    /\ mon.isConnected /\ ~mon.isMonitoring
    /\ mon.reader /\ mon.isConnected
    /\ Cardinality(timers)
         + Cardinality({s \in Slots : /\ polls[s].pc # "idle"
                                      /\ polls[s].by.handler = "startMonitoring"})
         < MaxTimers
    /\ used.presses < MaxPresses
    /\ ReadGlucoseDataCall([handler         |-> "startMonitoring",
                            glucoseReadings |-> mon.glucoseReadings,
                            event           |-> "press"])

\* the Stop Monitoring button
StopMonitoringPress ==
    /\ mounted = "yes"
    /\ mon.isConnected /\ mon.isMonitoring
    /\ LET stopped == StopMonitoring(mon, timers)
       IN  /\ mon' = stopped.mon
           /\ timers' = stopped.timers
    /\ used.presses < MaxPresses
    /\ used' = [used EXCEPT !.presses = @ + 1]
    /\ UNCHANGED <<mounted, tornDown, session>>
    /\ UNCHANGED <<keyVars, cipherVars, utilVars, readerVars, clientVars>>

\* the Disconnect button: stopMonitoring(), then `await reader.disconnect()`
HandleDisconnect ==
    /\ mounted = "yes"
    /\ mon.isConnected
    /\ mon.reader
    /\ used.presses < MaxPresses
    /\ DisconnectCall([handler |-> "handleDisconnect",
                       after   |-> StopMonitoring(mon, timers),
                       event   |-> "press"])

\* an interval timer fires: its callback calls the readGlucoseData it
\* closed over
TimerTick ==
    /\ used.ticks < MaxTicks
    /\ \E t \in timers :
           ReadGlucoseDataCall([handler         |-> "tick",
                                glucoseReadings |-> t.glucoseReadings,
                                event           |-> "tick"])

\* the component unmounts: the cleanup of the effect runs with the state of
\* the render that created it
Unmount ==
    /\ mounted = "yes"
    /\ mounted' = "gone"
    /\ tornDown' = IF mon.isMonitoring THEN "unmount" ELSE tornDown
    /\ timers' = IF FirstRender.monitoringInterval # 0
                 THEN {t \in timers : t.id # FirstRender.monitoringInterval}
                 ELSE timers
    /\ IF FirstRender.reader
       THEN DisconnectStarts([handler |-> "cleanup"])
       ELSE UNCHANGED <<readerVars, keyVars, cipherVars, utilVars>>
    /\ UNCHANGED <<mon, used, session, clientVars>>

MonitorEvent ==
    \/ Mount
    \/ \E supported \in BOOLEAN : MonitorInitialized(supported)
    \/ HandleNfcScan
    \/ HandleConnect
    \/ StartMonitoring
    \/ StopMonitoringPress
    \/ HandleDisconnect
    \/ TimerTick
    \/ Unmount

\* what the sensor under the mounted component answers: its identifier or
\* a short answer; one reading, three or none
MonitorUidResponses == {<<0, 0>> \o SENSOR_UID, <<0, 0, 1, 2, 3, 4, 5, 6, 7>>}

MonitorValues ==
    {ToBase64(Encrypt(PAYLOAD_ONE, DeviceKey)), ToBase64(Encrypt(PAYLOAD_THREE, DeviceKey)),
     ToBase64(Encrypt(PAYLOAD_NONE, DeviceKey))}

MonitorNext ==
    \/ MonitorEvent
    \/ ScanSteps(MonitorUidResponses)
    \/ ConnectStep
    \/ PollSteps(MonitorValues)
    \/ DisconnectStep

---------------------------------------------------------------------------
(* The merge of readGlucoseData (the component's), called directly on a    *)
(* window and the readings of a poll, and once more on its own result.     *)

\* the longest window and the most incoming readings merged here
MaxWindow == 2
MaxIncoming == 2

\* the sequences over S of at most n elements
SeqsUpTo(S, n) == UNION {[1..k -> S] : k \in 0..n}

\* timestamps a day apart and across a carry of the low 16 bits; values
MergeTimestamps == {<<1, 48>>, <<1, 80>>, <<2, 5>>}
MergeValues == {100, 110}

\* handleNfcScan and readGlucoseData both leave glucoseReadings sorted by
\* timestamp; handleNfcScan leaves duplicates in
IsSortedByTimestamp(w) ==
    \A k \in 1..(Len(w) - 1) : ~TimestampLess(w[k + 1].timestamp, w[k].timestamp)

WindowPool ==
    {w \in SeqsUpTo([value : MergeValues, timestamp : MergeTimestamps], MaxWindow) :
        IsSortedByTimestamp(w)}

\* what reader.readGlucoseData() returns, in any order
IncomingPool ==
    SeqsUpTo([timestamp : MergeTimestamps, glucoseValue : MergeValues], MaxIncoming)

IdleMerge ==
    [pc |-> "idle", glucoseReadings |-> <<>>, readings |-> <<>>, now |-> <<0, 0>>,
     out |-> <<>>, again |-> <<>>]

MergeInit == merged = IdleMerge

\* the merge runs on a window glucoseReadings and the readings of a poll
MergeCall ==
    /\ merged.pc = "idle"
    /\ \E glucoseReadings \in WindowPool, readings \in IncomingPool, now \in NowPool :
           merged' = [pc              |-> "once",
                      glucoseReadings |-> glucoseReadings,
                      readings        |-> readings,
                      now             |-> now,
                      out             |-> MergeReadings(glucoseReadings, readings, now),
                      again           |-> <<>>]
    /\ UNCHANGED <<history, parsed, frame, logVars>>
    /\ UNCHANGED <<keyVars, cipherVars, readerVars, callerVars>>

\* the merge runs again, on the window it produced and the same readings
MergeAgain ==
    /\ merged.pc = "once"
    /\ merged' = [merged EXCEPT !.pc = "twice",
                                !.again = MergeReadings(merged.out, merged.readings, merged.now)]
    /\ UNCHANGED <<history, parsed, frame, logVars>>
    /\ UNCHANGED <<keyVars, cipherVars, readerVars, callerVars>>

MergeNext ==
    \/ MergeCall
    \/ MergeAgain

---------------------------------------------------------------------------
(* _extractHistoricalReadings, called on the buffer of a tag whose history *)
(* slots hold chosen bytes.                                                *)

\* what a 6-byte history slot can hold: nothing, a glucose value without a
\* timestamp, a timestamp without a glucose value, two readings (one with
\* only the highest timestamp byte and the high glucose byte set)
SLOT_EMPTY        == <<0, 0, 0, 0, 0, 0>>
SLOT_NO_TIMESTAMP == <<0, 0, 0, 0, 100, 0>>
SLOT_NO_GLUCOSE   == <<16, 0, 1, 0, 0, 0>>
SLOT_READING      == <<32, 0, 1, 0, 110, 0>>
SLOT_HIGH_BYTES   == <<0, 0, 0, 1, 0, 2>>

SlotPool == {SLOT_EMPTY, SLOT_NO_TIMESTAMP, SLOT_NO_GLUCOSE, SLOT_READING, SLOT_HIGH_BYTES}

\* the slots written one by one: the first two and the last; the others
\* all hold the same bytes
ChosenSlots == {0, 1, NUM_HISTORY - 1}

\* the bytes of history slot i of a tag
SlotOf(fill, written, i) == IF i \in ChosenSlots THEN written[i] ELSE fill

\* the byte at an offset of the tag's memory: zero outside the history
HistoryByte(fill, written, offset) ==
    IF offset >= HISTORY_START /\ offset < HISTORY_START + (NUM_HISTORY * READING_SIZE)
    THEN SlotOf(fill, written, (offset - HISTORY_START) \div READING_SIZE)
               [((offset - HISTORY_START) % READING_SIZE) + 1]
    ELSE 0

\* the 43 block responses of that tag: two status bytes, then 8 bytes
HistoryBlocks(fill, written) ==
    Arr([i \in 1..NUM_BLOCKS |->
           <<0, 0>> \o Arr([k \in 1..8 |-> HistoryByte(fill, written, (8 * (i - 1)) + k - 1)])])

HistoryInit == history = [pc |-> "idle", fill |-> SLOT_EMPTY, written |-> <<>>, out |-> <<>>]

\* _processSensorData runs _extractHistoricalReadings on the buffer of a tag
ExtractHistoricalReadingsCall ==
    /\ history.pc = "idle"
    /\ \E fill \in SlotPool, written \in [ChosenSlots -> SlotPool] :
           history' = [pc      |-> "done",
                       fill    |-> fill,
                       written |-> written,
                       out     |-> ExtractHistoricalReadings(HistoryBlocks(fill, written))]
    /\ UNCHANGED <<merged, parsed, frame, logVars>>
    /\ UNCHANGED <<keyVars, cipherVars, readerVars, callerVars>>

HistoryNext == ExtractHistoricalReadingsCall

---------------------------------------------------------------------------
(* _parseGlucoseData, called on decrypted buffers of every length up to    *)
(* MaxPayloadLen.                                                          *)

\* the longest buffer parsed here: room for three readings and five bytes
MaxPayloadLen == 33

\* the counts a buffer declares in byte 2
DeclaredCounts == {0, 1, 2, 3, 4, 255}

\* a buffer of n bytes: type 0x01, the count in byte 2, and from byte 3 on
\* bytes that differ from slot to slot
PayloadOf(n, count, seed) ==
    Arr([k \in 1..n |-> CASE k = 1 -> 1
                          [] k = 3 -> count
                          [] OTHER -> IF k <= 3 THEN 0 ELSE ((k * seed) + 5) % 256])

ParseInit == parsed = [pc |-> "idle", data |-> <<>>, out |-> <<>>]

\* readGlucoseData hands what decrypt returned to _parseGlucoseData
ParseGlucoseDataCall ==
    /\ parsed.pc = "idle"
    /\ \E n \in 0..MaxPayloadLen, count \in DeclaredCounts, seed \in {7, 11} :
           LET data == PayloadOf(n, count, seed)
           IN  parsed' = [pc |-> "done", data |-> data, out |-> ParseGlucoseData(data)]
    /\ UNCHANGED <<merged, history, frame, logVars>>
    /\ UNCHANGED <<keyVars, cipherVars, readerVars, callerVars>>

ParseNext == ParseGlucoseDataCall

---------------------------------------------------------------------------
(* Libre2Commands.getReadMultipleBlocksCommand, called directly.           *)

\* the largest numBlocks asked for here
MaxNumBlocks == 6

CommandsInit == frame = [pc |-> "idle", startBlock |-> 0, numBlocks |-> 0, out |-> <<>>]

\* a caller asks for the frame that reads numBlocks blocks from startBlock:
\* every block number of a byte, counts from 0 on
GetReadMultipleBlocksCommandCall ==
    /\ frame.pc = "idle"
    /\ \E startBlock \in 0..255, numBlocks \in 0..MaxNumBlocks :
           frame' = [pc         |-> "done",
                     startBlock |-> startBlock,
                     numBlocks  |-> numBlocks,
                     out        |-> GetReadMultipleBlocksCommand(startBlock, numBlocks)]
    /\ UNCHANGED <<merged, history, parsed, logVars>>
    /\ UNCHANGED <<keyVars, cipherVars, readerVars, callerVars>>

CommandsNext == GetReadMultipleBlocksCommandCall

---------------------------------------------------------------------------
(* Logger: the level, the four logging methods, the history.               *)

\* Logger.LEVELS
LEVELS == [DEBUG |-> 0, INFO |-> 1, WARNING |-> 2, ERROR |-> 3, NONE |-> 4]

\* the level names debug, info, warning and error hand to _createLogEntry
LogMethods == {"DEBUG", "INFO", "WARNING", "ERROR"}

\* Logger.maxHistorySize
MaxHistorySize == 100

\* the entries stored in a run; after the first MaxMixed of them the caller
\* calls error() and clearHistory() only
MaxStored == 103
MaxMixed == 3

\* what callers pass to setLevel: the values of LEVELS and two others
LevelArgs == -1..5

\* setLevel: the level after the call
SetLevel(level) ==
    IF level \in {LEVELS[name] : name \in DOMAIN LEVELS} THEN level ELSE currentLevel

\* _createLogEntry; the timestamp, the tag and the data are not kept
CreateLogEntry(level, message) == [level |-> level, message |-> message]

\* a mutant of _storeLogEntry: beyond the maximum the newest entry is dropped
StoreLogEntryDropNewest(entry) ==
    LET pushed == Append(logHistory, entry)
    IN  IF Len(pushed) > MaxHistorySize THEN SubSeq(pushed, 1, Len(pushed) - 1) ELSE pushed

\* _storeLogEntry: push, then shift when the history exceeds the maximum
StoreLogEntry(entry) ==
    LET pushed == Append(logHistory, entry)
    IN  IF Len(pushed) > MaxHistorySize THEN Tail(pushed) ELSE pushed

\* debug, info, warning, error: the history after the call
LogAt(level, message) ==
    IF currentLevel <= LEVELS[level]
    THEN StoreLogEntry(CreateLogEntry(level, message))
    ELSE logHistory

LoggerInit ==
    /\ currentLevel = LEVELS.INFO
    /\ logHistory = <<>>
    /\ logCalls = [stored |-> 0, sinceClear |-> 0, last |-> [method |-> "none"]]

\* a caller invokes setLevel(level)
SetLevelCall(level) ==
    /\ logCalls.stored < MaxMixed
    /\ currentLevel' = SetLevel(level)
    /\ logCalls' = [logCalls EXCEPT !.last = [method |-> "setLevel", level |-> level,
                                              levelBefore |-> currentLevel]]
    /\ UNCHANGED logHistory
    /\ UNCHANGED <<merged, history, parsed, frame>>
    /\ UNCHANGED <<keyVars, cipherVars, readerVars, callerVars>>

\* a caller invokes debug, info, warning or error; it numbers its messages
\* by the entries stored so far
LogCall(level) ==
    /\ logCalls.stored < MaxStored
    /\ logCalls.stored < MaxMixed \/ level = "ERROR"
    /\ logHistory' = LogAt(level, logCalls.stored + 1)
    /\ LET stored == IF logHistory' # logHistory THEN 1 ELSE 0
       IN  logCalls' = [stored     |-> logCalls.stored + stored,
                        sinceClear |-> logCalls.sinceClear + stored,
                        last       |-> [method |-> level, levelBefore |-> currentLevel,
                                        stored |-> stored = 1]]
    /\ UNCHANGED currentLevel
    /\ UNCHANGED <<merged, history, parsed, frame>>
    /\ UNCHANGED <<keyVars, cipherVars, readerVars, callerVars>>

\* a caller invokes clearHistory()
ClearHistoryCall ==
    /\ logHistory' = <<>>
    /\ logCalls' = [logCalls EXCEPT !.sinceClear = 0, !.last = [method |-> "clearHistory"]]
    /\ UNCHANGED currentLevel
    /\ UNCHANGED <<merged, history, parsed, frame>>
    /\ UNCHANGED <<keyVars, cipherVars, readerVars, callerVars>>

LoggerNext ==
    \/ \E level \in LevelArgs : SetLevelCall(level)
    \/ \E level \in LogMethods : LogCall(level)
    \/ ClearHistoryCall

Init ==
    /\ KeysInit
    /\ CipherInit
    /\ ReaderInit
    /\ ClientInit
    /\ MonitorInit
    /\ MergeInit
    /\ HistoryInit
    /\ ParseInit
    /\ CommandsInit
    /\ LoggerInit

Spec == Init /\ [][Next]_vars

SpecKeys == Init /\ [][KeysNext]_vars

SpecCipher == Init /\ [][CipherNext]_vars

SpecScan == Init /\ [][ScanNext]_vars

SpecHistory == Init /\ [][HistoryNext]_vars

SpecParse == Init /\ [][ParseNext]_vars

SpecCommands == Init /\ [][CommandsNext]_vars

SpecLogger == Init /\ [][LoggerNext]_vars

SpecMerge == Init /\ [][MergeNext]_vars

SpecMonitor == Init /\ [][MonitorNext]_vars

---------------------------------------------------------------------------
(* Claims about the key derivation.                                        *)

\* C1: generateKeys is deterministic: a call on an 8-byte identifier returns
\* the keys an earlier call on that identifier returned, whatever calls (on
\* it or on other identifiers, with whatever `info`) were made in between.
C1_GenerateKeysDeterministic ==
    (probe # NONE /\ ~UidRejected(probe.uid) /\ lastGen.uid = probe.uid)
        => /\ lastGen.out.encryptionKey = probe.out.encryptionKey
           /\ lastGen.out.decryptionKey = probe.out.decryptionKey

\* C1's case: a second call on the probed identifier, after calls on others
C1_Witness ==
    /\ probe # NONE
    /\ ~UidRejected(probe.uid)
    /\ probe.others
    /\ probe.again
    /\ lastGen.uid = probe.uid
    /\ lastGen.info # ""

\* The reference of C2: a 256-entry table indexed by the byte itself.  The
\* source lists its first 32 entries and, after the elision, its last 16;
\* the entries in between are not given.
RefKnown == (0..31) \cup (240..255)

RefSBox(b) == IF b < 32 THEN SBOX[b + 1] ELSE SBOX[b - 240 + 33]

RefMAC(uid) ==
    LET x    == MacXored(MAC_INIT, uid)
        temp == [i \in 1..8 |-> RefSBox(x[i])]
    IN  [i \in 1..8 |-> (temp[i] + temp[(i % 8) + 1]) % 256]

\* C2: the AuthCode is the reference's: every byte is looked up at the
\* index that is the byte itself, and where the reference table is given
\* for all eight bytes the AuthCode equals the reference AuthCode.
C2_AuthCodeMatchesReference ==
    (lastGen # NONE /\ ~UidRejected(lastGen.uid)) =>
        LET x == MacXored(MAC_INIT, lastGen.uid)
        IN  /\ \A i \in 1..8 : SBoxIndex(x[i]) = x[i]
            /\ (\A i \in 1..8 : x[i] \in RefKnown) => lastGen.out.mac = RefMAC(lastGen.uid)

\* C3: generateKeys throws its invalid-identifier error for every argument
\* that is missing or whose length is not 8, and returns keys for every
\* 8-byte one; a scan whose identifier response carries fewer than 8
\* identifier bytes fails with only the get-identifier frame sent and no
\* block read.
C3_InvalidIdentifierRefused ==
    /\ lastGen # NONE =>
         IF lastGen.uid = NO_BYTES \/ Len(lastGen.uid) # 8
         THEN lastGen.out = Error("UID must be an 8-byte array")
         ELSE /\ ~IsError(lastGen.out)
              /\ Len(lastGen.out.encryptionKey) = 16
              /\ Len(lastGen.out.decryptionKey) = 16
    /\ (lastScan # NONE /\ lastScan.uidResponse # NO_BYTES /\ Len(lastScan.uidResponse) < 10) =>
         /\ ~lastScan.ok
         /\ lastScan.error = ERR_UID_REQUIRED
         /\ lastScan.sent = <<UidCommand>>
         /\ lastScan.blocks = 0

\* C3's case: a scan was aborted by a 7-byte identifier, and generateKeys
\* refused a 9-byte argument
C3_Witness ==
    /\ lastScan # NONE
    /\ lastScan.uidResponse # NO_BYTES
    /\ Len(lastScan.uidResponse) = 9
    /\ ~lastScan.ok
    /\ lastGen # NONE
    /\ lastGen.uid # NO_BYTES
    /\ Len(lastGen.uid) = 9
    /\ IsError(lastGen.out)

\* the seed a generateKeys call derived both keys from
SeedOf(gen) == GenerateSeed(gen.out.mac, gen.uid)

\* the 16 bytes one round's additive update (round 0: no rotation) makes of
\* a key whose bytes are all x
RoundImage(seed, x) == DeriveRound(Arr([i \in 1..16 |-> x]), seed, 0)

\* C21: for every 8-byte identifier the encryption key and the decryption
\* key differ at every one of the 16 byte positions; the keys are what
\* _deriveKey makes of seed XOR 1 and seed XOR 2, and under the call's seed
\* the update of a round maps the 256 bytes at a position to 256 different
\* bytes.
C21_KeysDifferAtEveryByte ==
    (lastGen # NONE /\ ~UidRejected(lastGen.uid)) =>
        LET seed   == SeedOf(lastGen)
            images == {RoundImage(seed, x) : x \in 0..255}
        IN  /\ \A i \in 1..16 : lastGen.out.encryptionKey[i] # lastGen.out.decryptionKey[i]
            /\ lastGen.out.encryptionKey = DeriveRounds(Arr([i \in 1..16 |-> Xor(seed[i], 1)]), seed, 0)
            /\ lastGen.out.decryptionKey = DeriveRounds(Arr([i \in 1..16 |-> Xor(seed[i], 2)]), seed, 0)
            /\ \A i \in 1..16 : Cardinality({image[i] : image \in images}) = 256

\* C21's case: keys were generated for an identifier with high bytes, whose
\* seed makes the additions of a round overflow a byte
C21_Witness ==
    /\ lastGen # NONE
    /\ lastGen.uid = UID_F9
    /\ ~IsError(lastGen.out)
    /\ \E i \in 1..16 : Xor(SeedOf(lastGen)[i], 1) + SeedOf(lastGen)[((i - 1) % 8) + 1] > 255

---------------------------------------------------------------------------
(* Claims about the block cipher adapter.                                  *)

\* C4: decrypt(encrypt(p, k), k) = p, byte for byte, for block-aligned p.
C4_DecryptInvertsEncrypt ==
    (plainOut # NO_BYTES /\ Len(cipherIn.data) % BLOCK_BYTES = 0)
        => plainOut = cipherIn.data

\* C4's case: two blocks with bytes above 0x7F went through both directions
C4_Witness ==
    /\ plainOut # NO_BYTES
    /\ Len(cipherIn.data) = 2 * BLOCK_BYTES
    /\ cipherIn.data[1] = 255
    /\ cipherOut # cipherIn.data
    /\ plainOut = cipherIn.data

---------------------------------------------------------------------------
(* Claims about the reader.                                                *)

\* C5 (as stated): a poll whose characteristic value is not a multiple of
\* 16 bytes long fails in decrypt with a malformed-ciphertext error and
\* returns no readings.
C5_OddCiphertextAbortsPoll ==
    (lastPoll # NONE /\ lastPoll.read /\ lastPoll.encrypted # NO_BYTES
                     /\ Len(lastPoll.encrypted) % BLOCK_BYTES # 0)
        => /\ ~lastPoll.ok
           /\ lastPoll.readings = <<>>

\* C6 (as stated): a poll by a reader that holds no keys fails with the
\* keys-unavailable error, whatever the reader's state, without a
\* characteristic read and without a decrypt.
C6_KeysUnavailableInAnyState ==
    (lastPoll # NONE /\ ~lastPoll.hadKeys)
        => /\ lastPoll.error = ERR_NO_KEYS
           /\ ~lastPoll.read
           /\ ~lastPoll.decrypted

\* C6 (amended): a poll by a reader that holds no keys fails without a
\* characteristic read and without a decrypt; the error is keys-unavailable
\* when the reader is connected to a device, and not-connected otherwise.
C6_PollWithoutKeysFails ==
    (lastPoll # NONE /\ ~lastPoll.hadKeys)
        => /\ ~lastPoll.ok
           /\ lastPoll.error = IF lastPoll.wasConnected THEN ERR_NO_KEYS ELSE ERR_NOT_CONNECTED
           /\ lastPoll.readings = <<>>
           /\ ~lastPoll.read
           /\ ~lastPoll.decrypted

\* C6's case: a connected reader without keys was polled
C6_Witness ==
    /\ lastPoll # NONE
    /\ ~lastPoll.hadKeys
    /\ lastPoll.wasConnected
    /\ lastPoll.error = ERR_NO_KEYS
    /\ rd.isConnected
    /\ rd.encryptionKeys = NONE

\* the frames of C7: activate, get-identifier, then blocks 0..42
FramesOfC7 ==
    <<GetActivateCommand, GetUidCommand>>
        \o Arr([k \in 1..NUM_BLOCKS |-> GetReadBlockCommand(k - 1)])

\* C7 (as stated): a successful scan sent the activate frame, then the
\* get-identifier frame, then one read-block frame per block 0..42 in
\* ascending order, and decoded after all 43 responses.
C7_ScanFrameOrder ==
    (lastScan # NONE /\ lastScan.ok)
        => /\ lastScan.sent = FramesOfC7
           /\ lastScan.blocks = NUM_BLOCKS

\* C10 (as stated): once disconnect has completed the reader holds neither
\* keys nor the device.
C10_DisconnectReleasesKeys ==
    lastDone = "disconnect" => (rd.encryptionKeys = NONE /\ rd.device = NONE)

\* the frames a scan has sent once it has sent n of them: the
\* get-identifier frame, then the reads of blocks 0..n-2
FramesSentBy(n) ==
    <<UidCommand>> \o Arr([k \in 1..(n - 1) |-> BlockCommand(k - 1)])

\* C19: a scan one of whose transceives was rejected has failed with that
\* rejection, every frame it sent was sent once, in order, the rejected
\* frame is the last one, and the scan is over; a poll one of whose BLE
\* operations was rejected has failed with that rejection, returned no
\* reading and issued at most one characteristic read, and is over.
C19_TransportFailuresNotRetried ==
    /\ (lastScan # NONE /\ lastScan.error = ERR_TRANSCEIVE)
         => /\ ~lastScan.ok
            /\ lastScan.data = NONE
            /\ lastScan.sent = FramesSentBy(IF lastScan.uidResponse = NO_BYTES
                                            THEN 1 ELSE lastScan.blocks + 2)
            /\ NoneInFlight(scans)
            /\ nfcTech = "none"
    /\ (lastPoll # NONE /\ lastPoll.error = ERR_BLE)
         => /\ ~lastPoll.ok
            /\ lastPoll.readings = <<>>
            /\ lastPoll.reads = (IF lastPoll.read THEN 1 ELSE 0)
            /\ ~lastPoll.decrypted
            /\ NoneInFlight(polls)

\* C19's case: the tag answered the identifier and blocks 0 and 1, the read
\* of block 2 was rejected, and the scan failed having sent four frames
C19_Witness ==
    /\ lastScan # NONE
    /\ lastScan.error = ERR_TRANSCEIVE
    /\ lastScan.blocks = 2
    /\ lastScan.sent = <<UidCommand, BlockCommand(0), BlockCommand(1), BlockCommand(2)>>
    /\ NoneInFlight(scans)

\* C22: in every reachable state of a reader, after any sequence of
\* successful and failing scans, if encryptionKeys is set then the stored
\* sensorUid is 8 bytes long and encryptionKeys is generateKeys(sensorUid).
C22_KeysBelongToStoredUid ==
    rd.encryptionKeys # NONE
        => /\ rd.sensorUid # NO_BYTES
           /\ Len(rd.sensorUid) = 8
           /\ rd.encryptionKeys = GenerateKeys(rd.sensorUid)

---------------------------------------------------------------------------
(* Claims about the component.                                             *)

\* the calls of a kind that are in flight
InFlight(calls) == {s \in Slots : calls[s].pc # "idle"}

\* C8 (as stated): at every moment at most one scan holds the tag and at
\* most one poll is in flight.
C8_OneScanOnePoll ==
    /\ Cardinality({s \in Slots : scans[s].pc \in {"uid", "block"}}) <= 1
    /\ Cardinality(InFlight(polls)) <= 1

\* C9 (as stated): after a teardown (a completed handleDisconnect, or an
\* unmount while monitoring) no interval timer is alive and the reader is
\* disconnected.
C9_TeardownStopsPolling ==
    tornDown # "no" => (timers = {} /\ ~rd.isConnected)

\* C11 (as stated): a scan that failed left the reader's stored identifier
\* and keys exactly as they were when the scan started, and returned no
\* sensor data.
C11_ScanAllOrNothing ==
    (lastScan # NONE /\ ~lastScan.ok)
        => /\ lastScan.data = NONE
           /\ ScanDerived(rd) = lastScan.before

\* C12 (as stated): after a poll of a monitoring session has completed,
\* every reading that a poll of the session has delivered and that is
\* within 24 hours of that poll's instant is in the window.
C12_PollsAccumulate ==
    (mounted = "yes" /\ session.polled)
        => \A t \in session.delivered :
               AfterCutoff(t, session.now)
                   => \E k \in 1..Len(mon.glucoseReadings) : mon.glucoseReadings[k].timestamp = t

\* C14 (as stated): after a poll has completed, at the instant now, the
\* window holds no entry with timestamp <= now - 24 h.
C14_WindowHoldsLastDay ==
    (mounted = "yes" /\ session.polled)
        => \A k \in 1..Len(mon.glucoseReadings) :
               AfterCutoff(mon.glucoseReadings[k].timestamp, session.now)

\* C23: at every moment of a mounted component at most one polling timer
\* is live and it is the one recorded in monitoringInterval, for any
\* interleaving of Start Monitoring and Stop Monitoring presses with the
\* initial read (a second Start press while the first start awaits its
\* initial read included): stopMonitoring can clear every timer, and after
\* stopMonitoring returned no timer remains.
C23_AtMostOneTimer ==
    mounted = "yes"
        => /\ Cardinality(timers) <= 1
           /\ \A t \in timers : t.id = mon.monitoringInterval

---------------------------------------------------------------------------
(* Claims about the merge.                                                 *)

\* the window and the formatted incoming readings, in the order seen
SeenByMerge == merged.glucoseReadings \o FormatReadings(merged.readings)

\* the value seen last for timestamp t
LastSeenValue(t) ==
    LET last == CHOOSE k \in 1..Len(SeenByMerge) :
                    /\ SeenByMerge[k].timestamp = t
                    /\ \A j \in (k + 1)..Len(SeenByMerge) : SeenByMerge[j].timestamp # t
    IN  SeenByMerge[last].value

C15_MergeIdempotent ==
    merged.pc = "twice" => merged.again = merged.out

\* C15's case: the first merge dropped an entry of the window, replaced the
\* value of another by an incoming one and added one; the second merge ran
C15_Witness ==
    /\ merged.pc = "twice"
    /\ Len(merged.glucoseReadings) = 2
    /\ Len(merged.readings) = 2
    /\ ~AfterCutoff(merged.glucoseReadings[1].timestamp, merged.now)
    /\ merged.readings[1].timestamp = merged.glucoseReadings[2].timestamp
    /\ merged.readings[1].glucoseValue # merged.glucoseReadings[2].value
    /\ TimestampLess(merged.readings[1].timestamp, merged.readings[2].timestamp)
    /\ Len(merged.out) = 2
    /\ merged.again = merged.out

---------------------------------------------------------------------------
(* Claims about the decoding of the tag memory.                            *)

\* the history slots of the tag that was decoded, in slot order, as bytes
SlotsDecoded ==
    Arr([i \in 1..NUM_HISTORY |-> SlotOf(history.fill, history.written, i - 1)])

\* C16: the historical readings are exactly the slots, among the 32 from
\* offset 124 on, whose four timestamp bytes are not all zero and whose two
\* glucose bytes are not both zero, in slot order, each with the
\* little-endian timestamp and the little-endian raw value (tenths); slots
\* skipped do not end the decoding, and no more than 32 readings come out.
C16_HistoricalDecoding ==
    history.pc = "done" =>
        LET kept == SelectSeq(SlotsDecoded,
                              LAMBDA b : /\ <<b[1], b[2], b[3], b[4]>> # <<0, 0, 0, 0>>
                                         /\ <<b[5], b[6]>> # <<0, 0>>)
        IN  /\ Len(history.out) = Len(kept)
            /\ Len(history.out) <= 32
            /\ \A k \in 1..Len(kept) :
                   /\ history.out[k].timestamp
                        = <<(kept[k][4] * 256) + kept[k][3], (kept[k][2] * 256) + kept[k][1]>>
                   /\ history.out[k].glucoseValue = (kept[k][6] * 256) + kept[k][5]

\* C16's case: slot 0 holds glucose bytes without a timestamp, slot 1 a
\* timestamp without glucose bytes, every later slot a reading: the 30
\* later slots are returned, the last slot's reading last
C16_Witness ==
    /\ history.pc = "done"
    /\ history.written[0] = SLOT_NO_TIMESTAMP
    /\ history.written[1] = SLOT_NO_GLUCOSE
    /\ history.fill = SLOT_READING
    /\ history.written[NUM_HISTORY - 1] = SLOT_HIGH_BYTES
    /\ Len(history.out) = 30
    /\ history.out[1] = [timestamp |-> <<1, 32>>, glucoseValue |-> 110]
    /\ history.out[30] = [timestamp |-> <<256, 0>>, glucoseValue |-> 512]

\* C17: the decoding of a radio payload returns no reading for a buffer
\* shorter than 16 bytes; for a longer one, with N its byte 2, it returns
\* min(N, floor((length - 10) / 6)) readings, reading k from the 6 bytes at
\* offset 10 + 6 k: no byte past the end of the buffer is read.
C17_PayloadDecodingBounded ==
    parsed.pc = "done" =>
        LET data == parsed.data
            fit  == (Len(data) - 10) \div 6
        IN  IF Len(data) < 16 THEN parsed.out = <<>>
            ELSE /\ Len(parsed.out) = IF data[3] < fit THEN data[3] ELSE fit
                 /\ \A k \in 1..Len(parsed.out) :
                        LET at == 10 + (6 * (k - 1))
                        IN  /\ at + 6 <= Len(data)
                            /\ parsed.out[k].timestamp
                                 = <<(data[at + 4] * 256) + data[at + 3],
                                     (data[at + 2] * 256) + data[at + 1]>>
                            /\ parsed.out[k].glucoseValue = (data[at + 6] * 256) + data[at + 5]

\* C17's case: a buffer of 27 bytes declares 255 readings; two fit, five
\* bytes are left over, and two readings are returned
C17_Witness ==
    /\ parsed.pc = "done"
    /\ Len(parsed.data) = 27
    /\ parsed.data[3] = 255
    /\ Len(parsed.out) = 2
    /\ parsed.out[1] # parsed.out[2]

---------------------------------------------------------------------------
(* Claims about the command frames.                                        *)

\* C18: for a start block 0..255 and a count of at least 1 the frame is
\* the 8 bytes 0x23, startBlock, min(numBlocks, 3) - 1, 0, 0, 0, 0, 0.
C18_ReadMultipleBlocksClamped ==
    (frame.pc = "done" /\ frame.startBlock \in 0..255 /\ frame.numBlocks >= 1)
        => frame.out = <<35, frame.startBlock,
                         (IF frame.numBlocks < 3 THEN frame.numBlocks ELSE 3) - 1,
                         0, 0, 0, 0, 0>>

\* C18's case: 5 blocks were asked for from block 40, and the frame asks
\* for 3
C18_Witness ==
    /\ frame.pc = "done"
    /\ frame.startBlock = 40
    /\ frame.numBlocks = 5
    /\ frame.out = <<35, 40, 2, 0, 0, 0, 0, 0>>

---------------------------------------------------------------------------
(* Claims about the logger.                                                *)

\* C20: the history holds at most 100 entries; they are the entries stored
\* last since the latest clearHistory, in the order stored (the messages,
\* numbered as they were stored, are consecutive and end at the latest);
\* the latest logging call stored an entry exactly if the level was then at
\* or below the call's level; the latest setLevel changed the level exactly
\* if its argument is a value of LEVELS; the level is a value of LEVELS.
C20_LogHistoryBoundedFifo ==
    /\ Len(logHistory) <= 100
    /\ Len(logHistory) = (IF logCalls.sinceClear < 100 THEN logCalls.sinceClear ELSE 100)
    /\ \A k \in 1..Len(logHistory) :
           logHistory[k].message = (logCalls.stored - Len(logHistory)) + k
    /\ logCalls.last.method \in LogMethods
         => /\ logCalls.last.stored
                  <=> logCalls.last.levelBefore
                        <= (CASE logCalls.last.method = "DEBUG"   -> 0
                              [] logCalls.last.method = "INFO"    -> 1
                              [] logCalls.last.method = "WARNING" -> 2
                              [] logCalls.last.method = "ERROR"   -> 3)
            /\ logCalls.last.stored
                  => logHistory[Len(logHistory)].level = logCalls.last.method
    /\ logCalls.last.method = "setLevel"
         => currentLevel = (IF logCalls.last.level \in 0..4 THEN logCalls.last.level
                            ELSE logCalls.last.levelBefore)
    /\ currentLevel \in 0..4

\* C20's case: 102 entries have been stored since the history was last
\* cleared, the history holds the 100 latest, a warning stored at the start
\* is gone, and the latest call, at a level set below error, stored one
C20_Witness ==
    /\ logCalls.sinceClear = 102
    /\ logCalls.stored = 102
    /\ Len(logHistory) = 100
    /\ logHistory[1].message = 3
    /\ logHistory[100].message = 102
    /\ \A k \in 1..100 : logHistory[k].level = "ERROR"
    /\ logCalls.last.method = "ERROR"
    /\ logCalls.last.stored
    /\ currentLevel = 2

=============================================================================
